---- MODULE Spec2Model ----
(***************************************************************************)
(* Reconciliation engine of Kedesai/on-cloud.                              *)
(*                                                                         *)
(*   Spec    the fleet program of main.go: mainHandler and the functions   *)
(*           it calls (getExistingInstances, createEC2InstanceWithRetry,   *)
(*           createEC2Instance, terminateExcessInstances).                 *)
(*   SpecFn  the functions createEC2InstanceWithRetry and                  *)
(*           terminateExcessInstances of main.go and createS3Bucket of     *)
(*           go4gold.go, each called with arbitrary arguments (the         *)
(*           arguments mainHandler never passes included).                 *)
(*   SpecGo  the program of go4gold.go:54-303: main and the handlers of    *)
(*           the EC2 instance, the S3 bucket and the RDS instance, with    *)
(*           the operator answering the prompts.                           *)
(*   SpecDiff  the differs compareStates, compareALBStates and             *)
(*           compareASGStates, each run twice on one observed and one      *)
(*           desired resource.                                             *)
(*   SpecGoFatal  the second program of go4gold.go (352-504), whose        *)
(*           handlers end the process with log.Fatalf on an error.         *)
(*   SpecUpdate  updateEC2Instance of part_001 (167-205) on one instance,  *)
(*           followed by a run of compareStates on what the account holds. *)
(*   SpecFind  findALBByName, findAutoScalingGroupByName and               *)
(*           checkS3BucketExists, each followed by its handler.            *)
(*   SpecCo  the concurrent mains of part_000 (106-205, 360-465): one      *)
(*           goroutine for each named kind, the WaitGroup and errChan.     *)
(*           The handlers of the second main may wait at their prompt for  *)
(*           the operator, that of the S3 bucket in its retry delay.       *)
(*   SpecCoFair  SpecCo under weak fairness of its next-state action.      *)
(*   SpecCoGate  SpecCo under weak fairness of the program's steps: the    *)
(*           operator may never answer.                                    *)
(*   SpecProbe  getUniqueBucketName of go4gold.go (182-196) in accounts    *)
(*           that hold any of the names it probes.                         *)
(*   SpecInst  the program of part_001 (32-104): the instance is found by  *)
(*           its Name tag, compared, and updated or created.               *)
(*                                                                         *)
(* The provider (EC2, S3, RDS) is the environment: every call either       *)
(* succeeds and has its effect or returns one of ProviderErrors and has    *)
(* none; an update, which is several calls, may fail after a part of them. *)
(*                                                                         *)
(* retry.Do is github.com/avast/retry-go.  Both call sites pass only       *)
(* Attempts(3) and Delay(2s) (createS3Bucket adds OnRetry, which only      *)
(* logs), so the library defaults decide the rest: RetryIf is              *)
(* IsRecoverable (true of every error not wrapped by retry.Unrecoverable)  *)
(* and LastErrorOnly is false (the returned error is the list of the       *)
(* errors of all attempts).                                                *)
(***************************************************************************)
EXTENDS Integers, Sequences, FiniteSets, TLC

VARIABLES
    cfg,                \* main.go: MainConfig after mergeVariables
    provider,           \* the account's instances, in the provider's enumeration order
    nextId,             \* the next instance id the provider assigns
    pc,                 \* position in the running program
    ret,                \* where createEC2InstanceWithRetry returns to
    existingInstances,  \* main.go:102, the instance ids getExistingInstances returned
    instancesToCreate,  \* main.go:118
    instancesToTerminate, \* main.go:133, the count argument of terminateExcessInstances
    i,                  \* main.go:123, the loop index of the create loop
    n,                  \* retry.Do: the index of the running attempt
    errorLog,           \* retry.Do: the errors of the failed attempts
    err,                \* the error the last returned function returned (NoErr = nil)
    fatal,              \* the error log.Fatalf ended the process with (NoErr = none)
    buckets,            \* S3: the names of the buckets that exist
    bucketTags,         \* S3: the buckets PutBucketTagging succeeded on
    s3,                 \* go4gold.go: the arguments of createS3Bucket
    trace,              \* history: the evaluations of wrapped operations and the provider calls
    names,              \* go4gold.go: cfg.Resources.<kind>.Name of every resource kind
    live,               \* the provider's resource of every kind that is fetched by name
    kind,               \* the resource kind whose handler is running
    instanceID,         \* go4gold.go:112, the id findInstanceByName returned ("" = none)
    changes,            \* go4gold.go:126, the Change Set of the running handler
    approval,           \* go4gold.go:134, the string fmt.Scanln stored
    bucketName,         \* go4gold.go:183, name: the candidate of getUniqueBucketName
    outcome,            \* what the program reported for every resource kind
    hist,               \* history: the steps of the handlers, in order
    differ,             \* which differ runs: "EC2", "ALB" or "ASG"
    current,            \* the differ's first argument, the observed resource
    desired,            \* the differ's second argument, the desired resource
    changes1,           \* the Change Set of the first run of the differ
    changes2,           \* the Change Set of a second run on the same arguments
    tasks,              \* part_000: the position of the goroutine of each kind
    wg,                 \* part_000:170, the counter of the WaitGroup
    errChan,            \* part_000:171, the errors the channel holds
    closed,             \* part_000:199, errChan is closed
    logged,             \* part_000:202-204, the errors main has logged
    taskErr,            \* part_000:177, the error of the goroutine of each kind
    exitCode,           \* the exit status of the process, -1 while it runs
    policies,           \* part_000:257, len(cfg.Resources.IAMRole.Policies)
    attached            \* part_000:257, the policies handleIAMRole has attached

handlerVars == <<names, live, kind, instanceID, changes, approval, bucketName, outcome, hist>>

diffVars == <<differ, current, desired, changes1, changes2>>

coVars == <<tasks, wg, errChan, closed, logged, taskErr, exitCode, policies, attached>>

vars == <<cfg, provider, nextId, pc, ret, existingInstances, instancesToCreate,
          instancesToTerminate, i, n, errorLog, err, fatal, buckets, bucketTags, s3, trace,
          handlerVars, diffVars, coVars>>

----------------------------------------------------------------------------
(* Bounds of the model *)

MaxLive == 3        \* instances in the account when the program starts
MaxDesired == 2     \* largest desired_count of the configuration
MaxCount == 4       \* largest count argument of terminateExcessInstances in SpecFn
MaxPolicies == 1    \* most policies of the IAM role of the configuration
MaxDrifted == 2     \* most resources of the second main found with a Change Set
MaxNamed == 3       \* most kinds of a configuration whose resources have a Change Set

----------------------------------------------------------------------------
(* Values *)

\* Go error values: nil, a provider error, fmt.Errorf(msg + ": %v", cause), and
\* retry.Error (the list of the errors of all attempts).
NoErr == [kind |-> "nil", msg |-> "", causes |-> <<>>]

ProviderErrors == {"RequestLimitExceeded", "InternalError"}

ProviderErr(e) == [kind |-> "provider", msg |-> e, causes |-> <<>>]

\* fmt.Errorf(msg) and fmt.Errorf(msg + ": %v", cause)
Errorf(msg, causes) == [kind |-> "errorf", msg |-> msg, causes |-> causes]

\* Instances the account may hold at the start: (Name tag, lifecycle state).
InstanceKinds ==
    { [name |-> "web", state |-> "running"],
      [name |-> "web", state |-> "stopped"],
      [name |-> "web", state |-> "terminated"],
      [name |-> "db",  state |-> "running"] }

\* The accounts the program may start against: up to MaxLive instances, the
\* k-th the provider enumerates having id k.  new marks the instances launched
\* during the pass.
Accounts ==
    UNION { { [k \in 1..len |-> [id |-> k, name |-> f[k].name, state |-> f[k].state,
                                  new |-> FALSE]] : f \in [1..len -> InstanceKinds] }
            : len \in 0..MaxLive }

Min(a, b) == IF a < b THEN a ELSE b

SeqRange(s) == { s[k] : k \in 1..Len(s) }

\* history events: one evaluation of a wrapped operation, one provider call
Attempt(op, inv, att, res) ==
    [ev |-> "attempt", op |-> op, ids |-> <<>>, inv |-> inv, att |-> att, res |-> res]

Call(op, ids, res) ==
    [ev |-> "call", op |-> op, ids |-> ids, inv |-> 0, att |-> 0, res |-> res]

\* the resource kinds of go4gold.go (Config.Resources): every kind has a name
\* in infra.yaml, unset ("") when the kind is not declared
Kinds == {"EC2", "S3", "RDS"}

\* the kinds whose handler fetches the resource by name, compares and asks
\* (handleEC2Instance, handleRDSInstance)
GateKinds == {"EC2", "RDS"}

\* history event of a handler: a step op of the handler of kind k, with the
\* value it read or computed and the error it got
Step(k, op, arg, res) == [kind |-> k, op |-> op, arg |-> arg, res |-> res]

\* the state of a program that runs no handler
NoHandler ==
    /\ names = [k \in Kinds |-> ""]
    /\ live = [k \in GateKinds |-> "absent"]
    /\ kind = ""
    /\ instanceID = ""
    /\ changes = <<>>
    /\ approval = ""
    /\ bucketName = ""
    /\ outcome = [k \in Kinds |-> "none"]
    /\ hist = <<>>

\* the state of a program that starts no goroutine
NoTasks ==
    /\ tasks = <<>>
    /\ wg = 0
    /\ errChan = <<>>
    /\ closed = FALSE
    /\ logged = <<>>
    /\ taskErr = <<>>
    /\ exitCode = -1
    /\ policies = 0
    /\ attached = 0

\* the state of a program that runs no differ
NoDiffer ==
    /\ differ = ""
    /\ current = <<>>
    /\ desired = <<>>
    /\ changes1 = <<>>
    /\ changes2 = <<>>

----------------------------------------------------------------------------
(* retry.Do(f, retry.Attempts(3), retry.Delay(2*time.Second)) *)

Attempts == 3

\* the RetryIf option is not given: the default retries every error
RetryIf(e) == TRUE

\* the LastErrorOnly option is not given: the default returns retry.Error,
\* the errors of all attempts in order
RetryError(log) == [kind |-> "retry.Error", msg |-> "All attempts fail", causes |-> log]

\* RetryAfter with the attempt limit tested one attempt late
RetryAfterOneMore(e, k, log) ==
    IF e = NoErr THEN NoErr
    ELSE IF ~RetryIf(e) \/ k = Attempts THEN RetryError(Append(log, e))
    ELSE [kind |-> "again", msg |-> "", causes |-> <<>>]

\* RetryAfter returning the logged errors although the last attempt succeeded
RetryAfterKeepsErrors(e, k, log) ==
    IF e = NoErr THEN (IF log = <<>> THEN NoErr ELSE RetryError(log))
    ELSE IF ~RetryIf(e) \/ k = Attempts - 1 THEN RetryError(Append(log, e))
    ELSE [kind |-> "again", msg |-> "", causes |-> <<>>]

\* retry.Do after an attempt returned e with the attempt index at k and the
\* errors so far in log: what it returns (NoErr = nil), or "again" in kind
\* when it sleeps and runs the next attempt
RetryAfter(e, k, log) ==
    IF e = NoErr THEN NoErr
    ELSE IF ~RetryIf(e) \/ k = Attempts - 1 THEN RetryError(Append(log, e))
    ELSE [kind |-> "again", msg |-> "", causes |-> <<>>]

----------------------------------------------------------------------------
(* main.go *)

\* main.go:55-61
amiMap(region, os) ==
    IF region = "us-east-1" /\ os = "amazonLinux2" THEN "ami-045602374a1982480" ELSE ""

\* validateConfig without the test of the desired count
validateConfigNoCount(c) ==
    IF c.Provider # "aws" THEN "Unsupported provider"
    ELSE IF c.Region = "" THEN "Region is required"
    ELSE IF c.OS = "" THEN "OS must be set"
    ELSE IF c.Name = "" THEN "Name must be set"
    ELSE IF Len(c.VPCSecurityGroupIDs) = 0 THEN "VPCSecurityGroupIDs must be set"
    ELSE IF c.SubnetID = "" THEN "SubnetID must be set"
    ELSE ""

\* main.go:205-227, the message of the log.Fatal that ends the process, "" if none
validateConfig(c) ==
    IF c.Provider # "aws" THEN "Unsupported provider"
    ELSE IF c.Region = "" THEN "Region is required"
    ELSE IF c.DesiredCount <= 0 THEN "DesiredCount must be greater than 0"
    ELSE IF c.OS = "" THEN "OS must be set"
    ELSE IF c.Name = "" THEN "Name must be set"
    ELSE IF Len(c.VPCSecurityGroupIDs) = 0 THEN "VPCSecurityGroupIDs must be set"
    ELSE IF c.SubnetID = "" THEN "SubnetID must be set"
    ELSE ""

\* DescribeStates without a filter on the lifecycle state
DescribeStatesAll == {"running", "pending", "stopping", "stopped", "shutting-down", "terminated"}

\* main.go:238-240, the instance-state-name filter of DescribeInstances
DescribeStates == {"running", "pending", "stopping", "stopped"}

RECURSIVE DescribeInstances(_, _)
\* main.go:231-244, the provider's answer: the instances matching both filters,
\* in the provider's enumeration order
DescribeInstances(insts, name) ==
    IF insts = <<>> THEN <<>>
    ELSE (IF Head(insts).name = name /\ Head(insts).state \in DescribeStates
          THEN <<Head(insts)>> ELSE <<>>) \o DescribeInstances(Tail(insts), name)

RECURSIVE NameTagged(_, _)
\* main.go:249-260, the instances of the answer whose Name tag equals name
NameTagged(insts, name) ==
    IF insts = <<>> THEN <<>>
    ELSE (IF Head(insts).name = name THEN <<Head(insts)>> ELSE <<>>)
         \o NameTagged(Tail(insts), name)

\* main.go:230-263, the result of getExistingInstances when the call succeeds
getExistingInstances(insts, name) ==
    LET found == NameTagged(DescribeInstances(insts, name), name)
    IN  [k \in 1..Len(found) |-> found[k].id]

\* main.go:267-275, the validation error of createEC2Instance, NoErr if none
createValidation(c) ==
    IF c.SubnetID = "" THEN Errorf("subnet ID is required", <<>>)
    ELSE IF Len(c.VPCSecurityGroupIDs) = 0 THEN Errorf("VPC security group IDs are required", <<>>)
    ELSE IF c.AMI = "" THEN Errorf("AMI is required", <<>>)
    ELSE NoErr

\* terminateIds taking the victims from the end of the list
terminateIdsLast(instances, count) ==
    LET m == Min(count, Len(instances))
    IN  [k \in 1..m |-> instances[Len(instances) - m + k]]

\* terminateIds with the loop running once more (i <= count)
terminateIdsOffByOne(instances, count) ==
    [k \in 1..Min(count + 1, Len(instances)) |-> instances[k]]

\* main.go:349-354, the instance ids terminateExcessInstances names
terminateIds(instances, count) ==
    [k \in 1..Min(count, Len(instances)) |-> instances[k]]

\* TerminateInstances succeeded: the named instances start shutting down
Terminated(insts, ids) ==
    [k \in 1..Len(insts) |->
        IF insts[k].id \in SeqRange(ids)
        THEN [insts[k] EXCEPT !.state = "shutting-down"] ELSE insts[k]]

\* log.Fatalf(msg, e): the process ends
Fatal(e) ==
    /\ pc' = "exit"
    /\ fatal' = e


\* observedCount one short
observedCountShort(instances) == Len(instances) - 1

\* main.go:112 and main.go:118 both read len(existingInstances)
observedCount(instances) == Len(instances)

\* the create loop running once more (i <= instancesToCreate)
createLoopInclusive(k, toCreate) == k <= toCreate

\* main.go:123, the condition of the create loop
createLoopContinues(k, toCreate) == k < toCreate

\* the error of a create ignored
createFailedIgnored(e) == FALSE

\* main.go:127, the test that ends the pass after a create
createFailed(e) == e # NoErr

\* main.go:266-319, what one evaluation of createEC2Instance may return: the
\* validation error, or nil / the wrapped error of RunInstances
createOutcomes(c) ==
    IF createValidation(c) # NoErr THEN {createValidation(c)}
    ELSE {NoErr} \cup { Errorf("failed to create EC2 instance", <<ProviderErr(e)>>) :
                        e \in ProviderErrors }

\* RunInstances launching the instance without the Name tag
RunInstancesUntagged(name, res) ==
    /\ provider' = IF res = NoErr
                   THEN Append(provider, [id |-> nextId, name |-> "",
                                          state |-> "pending", new |-> TRUE])
                   ELSE provider
    /\ nextId' = IF res = NoErr THEN nextId + 1 ELSE nextId

\* main.go:311, RunInstances returned res.causes (<<>> = it succeeded and one
\* instance tagged Name = name is launched)
RunInstances(name, res) ==
    /\ provider' = IF res = NoErr
                   THEN Append(provider, [id |-> nextId, name |-> name,
                                          state |-> "pending", new |-> TRUE])
                   ELSE provider
    /\ nextId' = IF res = NoErr THEN nextId + 1 ELSE nextId

\* main.go:344-367, terminateExcessInstances(instances, count): sets err
terminateExcessInstances(instances, count) ==
    IF count <= 0
    THEN /\ err' = NoErr
         /\ UNCHANGED <<provider, trace>>
    ELSE LET ids == terminateIds(instances, count) IN
         \/ /\ provider' = Terminated(provider, ids)
            /\ trace' = Append(trace, Call("TerminateInstances", ids, NoErr))
            /\ err' = NoErr
         \/ \E e \in ProviderErrors :
              /\ provider' = provider
              /\ trace' = Append(trace, Call("TerminateInstances", ids, ProviderErr(e)))
              /\ err' = Errorf("failed to terminate instances", <<ProviderErr(e)>>)

----------------------------------------------------------------------------
(* mainHandler, main.go:67-142 *)

\* main.go:84-88
ResolveAMI ==
    /\ pc = "main_84"
    /\ LET ami == amiMap(cfg.Region, cfg.OS) IN
         IF ami # ""
         THEN /\ cfg' = [cfg EXCEPT !.AMI = ami]
              /\ pc' = "main_91"
              /\ fatal' = fatal
         ELSE /\ cfg' = cfg
              /\ Fatal(Errorf("No AMI found for region and OS", <<>>))
    /\ UNCHANGED <<provider, nextId, ret, existingInstances, instancesToCreate,
                   instancesToTerminate, i, n, errorLog, err, buckets, bucketTags, s3, trace>>
    /\ UNCHANGED <<handlerVars, diffVars, coVars>>

\* main.go:91
ValidateConfig ==
    /\ pc = "main_91"
    /\ IF validateConfig(cfg) = ""
       THEN pc' = "main_102" /\ fatal' = fatal
       ELSE Fatal(Errorf(validateConfig(cfg), <<>>))
    /\ UNCHANGED <<cfg, provider, nextId, ret, existingInstances, instancesToCreate,
                   instancesToTerminate, i, n, errorLog, err, buckets, bucketTags, s3, trace>>
    /\ UNCHANGED <<handlerVars, diffVars, coVars>>

\* main.go:102-105
FetchExisting ==
    /\ pc = "main_102"
    /\ \/ /\ existingInstances' = getExistingInstances(provider, cfg.Name)
          /\ trace' = Append(trace, Call("DescribeInstances", <<>>, NoErr))
          /\ pc' = "main_112"
          /\ fatal' = fatal
       \/ \E e \in ProviderErrors :
            /\ existingInstances' = existingInstances
            /\ trace' = Append(trace, Call("DescribeInstances", <<>>, ProviderErr(e)))
            /\ Fatal(Errorf("Failed to check existing instances",
                            <<Errorf("failed to describe instances", <<ProviderErr(e)>>)>>))
    /\ UNCHANGED <<cfg, provider, nextId, ret, instancesToCreate, instancesToTerminate,
                   i, n, errorLog, err, buckets, bucketTags, s3>>
    /\ UNCHANGED <<handlerVars, diffVars, coVars>>

\* main.go:112-134: the early return, the delta and the branch on its sign
Decide ==
    /\ pc = "main_112"
    /\ IF observedCount(existingInstances) = cfg.DesiredCount
       THEN /\ pc' = "done"
            /\ UNCHANGED <<instancesToCreate, instancesToTerminate, i>>
       ELSE LET d == cfg.DesiredCount - observedCount(existingInstances) IN
            /\ instancesToCreate' = d
            /\ IF d > 0
               THEN pc' = "main_123" /\ i' = 0 /\ UNCHANGED instancesToTerminate
               ELSE IF d < 0
               THEN pc' = "main_135" /\ instancesToTerminate' = -d /\ UNCHANGED i
               ELSE pc' = "done" /\ UNCHANGED <<instancesToTerminate, i>>
    /\ UNCHANGED <<cfg, provider, nextId, ret, existingInstances, n, errorLog, err, fatal,
                   buckets, bucketTags, s3, trace>>
    /\ UNCHANGED <<handlerVars, diffVars, coVars>>

\* main.go:123-126: the loop test, and the call of createEC2InstanceWithRetry
CreateLoop ==
    /\ pc = "main_123"
    /\ IF createLoopContinues(i, instancesToCreate)
       THEN /\ pc' = "retry"
            /\ ret' = "main_127"
            /\ n' = 0
            /\ errorLog' = <<>>
       ELSE /\ pc' = "done"
            /\ UNCHANGED <<ret, n, errorLog>>
    /\ UNCHANGED <<cfg, provider, nextId, existingInstances, instancesToCreate,
                   instancesToTerminate, i, err, fatal, buckets, bucketTags, s3, trace>>
    /\ UNCHANGED <<handlerVars, diffVars, coVars>>

\* main.go:333-342 with main.go:266-319: one attempt of retry.Do, which
\* evaluates createEC2Instance once, and what retry.Do does with its result
RetryAttempt ==
    /\ pc = "retry"
    /\ \E res \in createOutcomes(cfg) :
         LET called == createValidation(cfg) = NoErr
             rpc == IF res = NoErr THEN NoErr ELSE res.causes[1]
             r == RetryAfter(res, n, errorLog)
         IN  /\ IF called THEN RunInstances(cfg.Name, res)
                ELSE UNCHANGED <<provider, nextId>>
             /\ trace' = (IF called THEN Append(trace, Call("RunInstances", <<>>, rpc))
                          ELSE trace)
                         \o <<Attempt("createEC2Instance", i, n, res)>>
             /\ errorLog' = IF res = NoErr THEN errorLog ELSE Append(errorLog, res)
             /\ IF r.kind = "again"
                THEN n' = n + 1 /\ UNCHANGED <<pc, err>>
                ELSE pc' = ret /\ err' = r /\ n' = n
    /\ UNCHANGED <<cfg, ret, existingInstances, instancesToCreate, instancesToTerminate,
                   i, fatal, buckets, bucketTags, s3>>
    /\ UNCHANGED <<handlerVars, diffVars, coVars>>

\* main.go:127-130, and i++
AfterCreate ==
    /\ pc = "main_127"
    /\ IF createFailed(err)
       THEN Fatal(Errorf("Failed to create EC2 instance", <<err>>)) /\ i' = i
       ELSE pc' = "main_123" /\ i' = i + 1 /\ fatal' = fatal
    /\ UNCHANGED <<cfg, provider, nextId, ret, existingInstances, instancesToCreate,
                   instancesToTerminate, n, errorLog, err, buckets, bucketTags, s3, trace>>
    /\ UNCHANGED <<handlerVars, diffVars, coVars>>

\* main.go:135-138
Terminate ==
    /\ pc = "main_135"
    /\ terminateExcessInstances(existingInstances, instancesToTerminate)
    /\ IF err' # NoErr
       THEN Fatal(Errorf("Failed to terminate EC2 instances", <<err'>>))
       ELSE pc' = "done" /\ fatal' = fatal
    /\ UNCHANGED <<cfg, nextId, ret, existingInstances, instancesToCreate,
                   instancesToTerminate, i, n, errorLog, buckets, bucketTags, s3>>
    /\ UNCHANGED <<handlerVars, diffVars, coVars>>

\* the configurations infra.yaml merged with variables.yaml may give
Configs ==
    [ Provider : {"aws"}, Region : {"us-east-1"}, Name : {"web"},
      OS : {"amazonLinux2", "ubuntu"}, AMI : {""},
      VPCSecurityGroupIDs : {<<>>, <<"sg-1">>}, SubnetID : {"", "subnet-1"},
      DesiredCount : 0..MaxDesired ]

NoS3 == [bucketName |-> "", tags |-> <<>>]

Init ==
    /\ cfg \in Configs
    /\ provider \in Accounts
    /\ nextId = Len(provider) + 1
    /\ pc = "main_84"
    /\ ret = ""
    /\ existingInstances = <<>>
    /\ instancesToCreate = 0
    /\ instancesToTerminate = 0
    /\ i = 0
    /\ n = 0
    /\ errorLog = <<>>
    /\ err = NoErr
    /\ fatal = NoErr
    /\ buckets = {}
    /\ bucketTags = {}
    /\ s3 = NoS3
    /\ trace = <<>>
    /\ NoHandler
    /\ NoDiffer
    /\ NoTasks

Next ==
    \/ ResolveAMI
    \/ ValidateConfig
    \/ FetchExisting
    \/ Decide
    \/ CreateLoop
    \/ RetryAttempt
    \/ AfterCreate
    \/ Terminate

Spec == Init /\ [][Next]_vars

----------------------------------------------------------------------------
(* createS3Bucket, go4gold.go:213-253 *)

\* what CreateBucket may answer: success, a provider error, and for a bucket
\* this account already owns also BucketAlreadyOwnedByYou
createBucketErrors(name) ==
    ProviderErrors \cup (IF name \in buckets THEN {"BucketAlreadyOwnedByYou"} ELSE {})

\* go4gold.go:215-245 under retry.Do: one attempt, which evaluates the closure
\* once (CreateBucket, then PutBucketTagging if there are tags), and what
\* retry.Do does with its result; go4gold.go:252 returns retry.Do's error
S3Attempt ==
    /\ pc = "s3_retry"
    /\ \E res \in {NoErr} \cup { Errorf("failed to create bucket", <<ProviderErr(e)>>) :
                                 e \in createBucketErrors(s3.bucketName) }
                         \cup { Errorf("failed to add tags to bucket", <<ProviderErr(e)>>) :
                                 e \in IF Len(s3.tags) > 0 THEN ProviderErrors ELSE {} } :
         LET created == res.msg # "failed to create bucket"
             tagging == created /\ Len(s3.tags) > 0
             tagged == tagging /\ res = NoErr
             r == RetryAfter(res, n, errorLog)
         IN  /\ buckets' = IF created THEN buckets \cup {s3.bucketName} ELSE buckets
             /\ bucketTags' = IF tagged THEN bucketTags \cup {s3.bucketName} ELSE bucketTags
             /\ trace' = trace
                    \o <<Call("CreateBucket", <<>>, IF created THEN NoErr ELSE res.causes[1])>>
                    \o (IF tagging
                        THEN <<Call("PutBucketTagging", <<>>,
                                    IF tagged THEN NoErr ELSE res.causes[1])>>
                        ELSE <<>>)
                    \o <<Attempt("createS3Bucket", 0, n, res)>>
             /\ errorLog' = IF res = NoErr THEN errorLog ELSE Append(errorLog, res)
             /\ IF r.kind = "again"
                THEN n' = n + 1 /\ UNCHANGED <<pc, err>>
                ELSE pc' = "s3_return" /\ err' = r /\ n' = n
    /\ UNCHANGED <<cfg, provider, nextId, ret, existingInstances, instancesToCreate,
                   instancesToTerminate, i, fatal, s3>>
    /\ UNCHANGED <<handlerVars, diffVars, coVars>>

----------------------------------------------------------------------------
(* The functions called with arbitrary arguments *)

\* createEC2InstanceWithRetry(client, cfg, cfg.SubnetID, cfg.Name)
FnCreate ==
    /\ pc = "fn_create"
    /\ pc' = "retry"
    /\ ret' = "fn_return"
    /\ n' = 0
    /\ errorLog' = <<>>
    /\ UNCHANGED <<cfg, provider, nextId, existingInstances, instancesToCreate,
                   instancesToTerminate, i, err, fatal, buckets, bucketTags, s3, trace>>
    /\ UNCHANGED <<handlerVars, diffVars, coVars>>

\* terminateExcessInstances(client, existingInstances, instancesToTerminate)
FnTerminate ==
    /\ pc = "fn_terminate"
    /\ terminateExcessInstances(existingInstances, instancesToTerminate)
    /\ pc' = "fn_return"
    /\ UNCHANGED <<cfg, nextId, ret, existingInstances, instancesToCreate,
                   instancesToTerminate, i, n, errorLog, fatal, buckets, bucketTags, s3>>
    /\ UNCHANGED <<handlerVars, diffVars, coVars>>

\* createS3Bucket(client, s3.bucketName, acl, s3.tags)
FnCreateS3 ==
    /\ pc = "fn_s3"
    /\ pc' = "s3_retry"
    /\ n' = 0
    /\ errorLog' = <<>>
    /\ UNCHANGED <<cfg, provider, nextId, ret, existingInstances, instancesToCreate,
                   instancesToTerminate, i, err, fatal, buckets, bucketTags, s3, trace>>
    /\ UNCHANGED <<handlerVars, diffVars, coVars>>

\* the instance configurations createEC2InstanceWithRetry may be given
FnConfigs ==
    [ Provider : {"aws"}, Region : {"us-east-1"}, Name : {"web"}, OS : {"amazonLinux2"},
      AMI : {"", "ami-045602374a1982480"},
      VPCSecurityGroupIDs : {<<>>, <<"sg-1">>}, SubnetID : {"", "subnet-1"},
      DesiredCount : {1} ]

InitFn ==
    /\ pc \in {"fn_create", "fn_terminate", "fn_s3"}
    /\ cfg \in IF pc = "fn_create" THEN FnConfigs
               ELSE { c \in FnConfigs : createValidation(c) = NoErr }
    /\ provider \in IF pc = "fn_terminate" THEN Accounts ELSE {<<>>}
    /\ nextId = Len(provider) + 1
    /\ ret = ""
    /\ existingInstances = getExistingInstances(provider, cfg.Name)
    /\ instancesToCreate = 0
    /\ instancesToTerminate \in IF pc = "fn_terminate" THEN (-1)..MaxCount ELSE {0}
    /\ i = 0
    /\ n = 0
    /\ errorLog = <<>>
    /\ err = NoErr
    /\ fatal = NoErr
    /\ buckets \in IF pc = "fn_s3" THEN SUBSET {"assets"} ELSE {{}}
    /\ bucketTags = {}
    /\ s3 \in IF pc = "fn_s3"
              THEN [bucketName : {"assets"}, tags : {<<>>, <<"env">>}]
              ELSE {[bucketName |-> "", tags |-> <<>>]}
    /\ trace = <<>>
    /\ NoHandler
    /\ NoDiffer
    /\ NoTasks

NextFn ==
    \/ FnCreate
    \/ RetryAttempt
    \/ FnTerminate
    \/ FnCreateS3
    \/ S3Attempt

SpecFn == InitFn /\ [][NextFn]_vars

----------------------------------------------------------------------------
(* go4gold.go:54-303: main and the handlers of the three resource kinds.    *)
(* findInstanceByName, compareEC2States, updateEC2Instance,                 *)
(* createEC2Instance and their RDS counterparts are called by the handlers  *)
(* but not defined in go4gold.go; a handler sees only what they return, and *)
(* that is what the model keeps: live[k] says whether the resource named    *)
(* names[k] is absent, present as desired ("converged") or present and      *)
(* different ("drifted"); an update turns it into "updated" or, when it     *)
(* fails part-way, "partial"; a create into "created".                      *)

\* what the operator may type at a prompt: one line, as its words
Lines == { <<>>, <<"yes">>, <<"Yes">>, <<"y">>, <<"no">>, <<"yes", "please">> }

\* fmt.Scanln(&approval): skips leading blanks and stores the first word of the
\* line; with no word it stores nothing, with more words it returns an error
\* after storing (the handlers drop Scanln's error)
Scanln(line) == IF line = <<>> THEN "" ELSE line[1]

\* approved with "y" as the accepted answer
approvedShort(input) == input = "y"

\* go4gold.go:137, approval == "yes"
approved(input) == input = "yes"

\* needsApproval with the comparison including zero
needsApprovalAlways(c) == Len(c) >= 0

\* go4gold.go:127, len(changes) > 0
needsApproval(c) == Len(c) > 0

\* declared for every kind
declaredAlways(nm) == TRUE

\* go4gold.go:86, 94, 102: cfg.Resources.<kind>.Name != ""
declared(nm) == nm # ""

\* afterFind with the prompt on the create path
afterFindAsks(id) == IF id # "" THEN "go_126" ELSE "go_133"

\* go4gold.go:117, 149: where the handler goes after the fetch
afterFind(id) == IF id # "" THEN "go_126" ELSE "go_150"

\* go4gold.go:112, what findInstanceByName returns for a resource
findResult(l) == IF l = "absent" THEN "" ELSE "i-1"

\* go4gold.go:126, what the differ returns for a resource
compareResult(l) == IF l = "converged" THEN <<>> ELSE <<"change">>

\* the order of main: the position of the name test of every kind and of the
\* statement after its if block
mainPc(k) == CASE k = "EC2" -> "go_86" [] k = "S3" -> "go_94" [] k = "RDS" -> "go_102"

\* afterPc going back to the name test of the same kind
afterPcAgain(k) == mainPc(k)

afterPc(k) == CASE k = "EC2" -> "go_94" [] k = "S3" -> "go_102" [] k = "RDS" -> "go_108"

handlerPc(k) == IF k = "S3" THEN "go_162" ELSE "go_112"

\* Sprintf dropping the number
SprintfBase(baseName, k) == baseName

\* fmt.Sprintf("%s-%d", baseName, k)
Sprintf(baseName, k) == baseName \o "-" \o ToString(k)

\* go4gold.go:184, the number of names getUniqueBucketName tries
UniqueTries == 10

\* the variables of the fleet program, which go4gold.go does not have
fleetVars == <<cfg, provider, nextId, ret, existingInstances, instancesToCreate,
               instancesToTerminate, fatal>>

\* go4gold.go:86, 94, 102: main tests the name of kind k and calls its handler
MainStep(k) ==
    /\ pc = mainPc(k)
    /\ IF declared(names[k])
       THEN kind' = k /\ pc' = handlerPc(k)
       ELSE pc' = afterPc(k) /\ UNCHANGED kind
    /\ UNCHANGED <<fleetVars, i, n, errorLog, err, buckets, bucketTags, s3, trace, diffVars, coVars,
                   names, live, instanceID, changes, approval, bucketName, outcome, hist>>

\* go4gold.go:112-117 (257-262): the fetch by name
Find ==
    /\ pc = "go_112"
    /\ \E res \in {NoErr} \cup { ProviderErr(e) : e \in ProviderErrors } :
         /\ hist' = Append(hist, Step(kind, "find",
                                      IF res = NoErr THEN <<findResult(live[kind])>> ELSE <<>>,
                                      res))
         /\ IF res # NoErr
            THEN /\ err' = Errorf("failed to check for existing instance", <<res>>)
                 /\ pc' = "go_return"
                 /\ UNCHANGED instanceID
            ELSE /\ instanceID' = findResult(live[kind])
                 /\ pc' = afterFind(instanceID')
                 /\ UNCHANGED err
    /\ UNCHANGED <<fleetVars, i, n, errorLog, buckets, bucketTags, s3, trace, diffVars, coVars,
                   names, live, kind, changes, approval, bucketName, outcome>>

\* go4gold.go:126-127, 146-148 (271-272, 291-293): the differ and the test of
\* its Change Set
Compare ==
    /\ pc = "go_126"
    /\ changes' = compareResult(live[kind])
    /\ hist' = Append(hist, Step(kind, "compare", changes', NoErr))
    /\ IF needsApproval(changes')
       THEN pc' = "go_133" /\ UNCHANGED <<err, outcome>>
       ELSE /\ outcome' = [outcome EXCEPT ![kind] = "No changes required."]
            /\ err' = NoErr
            /\ pc' = "go_return"
    /\ UNCHANGED <<fleetVars, i, n, errorLog, buckets, bucketTags, s3, trace, diffVars, coVars,
                   names, live, kind, instanceID, approval, bucketName>>

\* go4gold.go:133-137, 143-145 (278-282, 288-290): the prompt
Prompt ==
    /\ pc = "go_133"
    /\ \E line \in Lines :
         /\ approval' = Scanln(line)
         /\ hist' = Append(hist, Step(kind, "prompt", line, NoErr))
    /\ IF approved(approval')
       THEN pc' = "go_138" /\ UNCHANGED <<err, outcome>>
       ELSE /\ outcome' = [outcome EXCEPT ![kind] = "Changes rejected."]
            /\ err' = NoErr
            /\ pc' = "go_return"
    /\ UNCHANGED <<fleetVars, i, n, errorLog, buckets, bucketTags, s3, trace, diffVars, coVars,
                   names, live, kind, instanceID, changes, bucketName>>

\* go4gold.go:138-142 (283-287): the update; one that fails has changed
\* nothing or a part
Update ==
    /\ pc = "go_138"
    /\ \E res \in {NoErr} \cup { ProviderErr(e) : e \in ProviderErrors } :
         /\ hist' = Append(hist, Step(kind, "update", <<>>, res))
         /\ IF res # NoErr
            THEN /\ err' = Errorf("failed to update instance", <<res>>)
                 /\ \E l \in {live[kind], "partial"} : live' = [live EXCEPT ![kind] = l]
                 /\ UNCHANGED outcome
            ELSE /\ err' = NoErr
                 /\ live' = [live EXCEPT ![kind] = "updated"]
                 /\ outcome' = [outcome EXCEPT ![kind] = "Changes applied successfully."]
    /\ pc' = "go_return"
    /\ UNCHANGED <<fleetVars, i, n, errorLog, buckets, bucketTags, s3, trace, diffVars, coVars,
                   names, kind, instanceID, changes, approval, bucketName>>

\* go4gold.go:150-154 (295-299): the create of a resource that was not found
Create ==
    /\ pc = "go_150"
    /\ \E res \in {NoErr} \cup { ProviderErr(e) : e \in ProviderErrors } :
         /\ hist' = Append(hist, Step(kind, "create", <<>>, res))
         /\ IF res # NoErr
            THEN /\ err' = Errorf("failed to create instance", <<res>>)
                 /\ UNCHANGED <<live, outcome>>
            ELSE /\ err' = NoErr
                 /\ live' = [live EXCEPT ![kind] = "created"]
                 /\ outcome' = [outcome EXCEPT ![kind] = "Created"]
    /\ pc' = "go_return"
    /\ UNCHANGED <<fleetVars, i, n, errorLog, buckets, bucketTags, s3, trace, diffVars, coVars,
                   names, kind, instanceID, changes, approval, bucketName>>

\* go4gold.go:162-163, 183: handleS3Bucket calls getUniqueBucketName
UniqueName ==
    /\ pc = "go_162"
    /\ bucketName' = names[kind]
    /\ i' = 0
    /\ pc' = "go_184"
    /\ UNCHANGED <<fleetVars, n, errorLog, err, buckets, bucketTags, s3, trace, diffVars, coVars,
                   names, live, kind, instanceID, changes, approval, outcome, hist>>

\* go4gold.go:184-194 with checkS3BucketExists (198-210): one turn of the loop,
\* and the call of createS3Bucket (164-172) with the name that is free
Probe ==
    /\ pc = "go_184"
    /\ IF i < UniqueTries
       THEN \E res \in {NoErr} \cup { ProviderErr(e) : e \in ProviderErrors } :
              /\ trace' = Append(trace, Call("HeadBucket", <<>>,
                                 IF res # NoErr THEN res
                                 ELSE IF bucketName \in buckets THEN NoErr
                                 ELSE ProviderErr("NotFound")))
              /\ hist' = Append(hist, Step(kind, "find", <<bucketName>>, res))
              /\ IF res # NoErr
                 THEN /\ err' = Errorf("failed to get unique bucket name",
                                <<Errorf("failed to check bucket existence",
                                  <<Errorf("failed to check bucket existence", <<res>>)>>)>>)
                      /\ pc' = "go_return"
                      /\ UNCHANGED <<i, n, errorLog, bucketName, s3>>
                 ELSE IF bucketName \in buckets
                 THEN /\ bucketName' = Sprintf(names[kind], i + 1)
                      /\ i' = i + 1
                      /\ UNCHANGED <<pc, n, errorLog, err, s3>>
                 ELSE /\ s3' = [s3 EXCEPT !.bucketName = bucketName]
                      /\ n' = 0
                      /\ errorLog' = <<>>
                      /\ pc' = "s3_retry"
                      /\ UNCHANGED <<i, err, bucketName>>
       ELSE /\ err' = Errorf("failed to get unique bucket name",
                      <<Errorf("could not find a unique bucket name after 10 attempts", <<>>)>>)
            /\ pc' = "go_return"
            /\ UNCHANGED <<i, n, errorLog, bucketName, s3, trace, hist>>
    /\ UNCHANGED <<fleetVars, buckets, bucketTags, diffVars, coVars,
                   names, live, kind, instanceID, changes, approval, outcome>>

\* go4gold.go:172-178: handleS3Bucket after createS3Bucket returned
S3Return ==
    /\ pc = "s3_return"
    /\ hist' = Append(hist, Step(kind, "create", <<s3.bucketName>>, err))
    /\ IF err # NoErr
       THEN err' = Errorf("failed to create S3 bucket", <<err>>) /\ UNCHANGED outcome
       ELSE outcome' = [outcome EXCEPT ![kind] = "Created"] /\ UNCHANGED err
    /\ pc' = "go_return"
    /\ UNCHANGED <<fleetVars, i, n, errorLog, buckets, bucketTags, s3, trace, diffVars, coVars,
                   names, live, kind, instanceID, changes, approval, bucketName>>

\* go4gold.go:88-90, 96-98, 104-106: main logs the handler's error and goes on
HandlerReturn ==
    /\ pc = "go_return"
    /\ outcome' = IF err # NoErr THEN [outcome EXCEPT ![kind] = "Failed to handle"]
                  ELSE outcome
    /\ pc' = afterPc(kind)
    /\ UNCHANGED <<fleetVars, i, n, errorLog, err, buckets, bucketTags, s3, trace, diffVars, coVars,
                   names, live, kind, instanceID, changes, approval, bucketName, hist>>

\* the name infra.yaml gives a declared kind
NameOf(k) == CASE k = "EC2" -> "web" [] k = "S3" -> "assets" [] k = "RDS" -> "db"

InitGo ==
    /\ pc = "go_86"
    /\ cfg = [Provider |-> "aws", Region |-> "us-east-1"]
    /\ provider = <<>>
    /\ nextId = 1
    /\ ret = ""
    /\ existingInstances = <<>>
    /\ instancesToCreate = 0
    /\ instancesToTerminate = 0
    /\ i = 0
    /\ n = 0
    /\ errorLog = <<>>
    /\ err = NoErr
    /\ fatal = NoErr
    /\ buckets \in SUBSET {"assets"}
    /\ bucketTags = {}
    /\ s3 \in [bucketName : {""}, tags : {<<>>, <<"env">>}]
    /\ trace = <<>>
    /\ names \in { f \in [Kinds -> {"", "web", "assets", "db"}] :
                     \A k \in Kinds : f[k] \in {"", NameOf(k)} }
    /\ live \in [GateKinds -> {"absent", "converged", "drifted"}]
    /\ kind = ""
    /\ instanceID = ""
    /\ changes = <<>>
    /\ approval = ""
    /\ bucketName = ""
    /\ outcome = [k \in Kinds |-> "none"]
    /\ hist = <<>>
    /\ NoDiffer
    /\ NoTasks

NextGo ==
    \/ \E k \in Kinds : MainStep(k)
    \/ Find
    \/ Compare
    \/ Prompt
    \/ Update
    \/ Create
    \/ UniqueName
    \/ Probe
    \/ S3Attempt
    \/ S3Return
    \/ HandlerReturn

SpecGo == InitGo /\ [][NextGo]_vars

----------------------------------------------------------------------------
(* The differs: compareStates (part_001:132-164), compareALBStates          *)
(* (part_000:691-720), compareASGStates (part_002:225-266).  A Change Set   *)
(* is a []string; an entry fmt.Sprintf("<field>: %v -> %v", from, to) is    *)
(* kept as the record of its three parts.  The tags of the desired resource *)
(* are a Go map, and the entries of the tags are appended while ranging     *)
(* over it: the order of a range over a map is not specified and differs    *)
(* from one range to the next, so a run of a differ takes the order as a    *)
(* choice the runtime makes.                                                *)

Entry(field, from, to) == [field |-> field, from |-> from, to |-> to]

\* the orders a range over a map with the key set S may take
Perms(S) ==
    { s \in [1..Cardinality(S) -> S] : \A a, b \in 1..Cardinality(S) : a # b => s[a] # s[b] }

\* currentTags := make(map[string]string); for _, tag := range current.Tags
\* { currentTags[*tag.Key] = *tag.Value }: a later tag of the same key wins
mapOf(tags) ==
    [ k \in { tags[j].Key : j \in 1..Len(tags) } |->
        tags[CHOOSE j \in 1..Len(tags) :
                tags[j].Key = k /\ \A l \in (j + 1)..Len(tags) : tags[l].Key # k].Value ]

\* lookup answering "" for every key
lookupNothing(m, key) == ""

\* m[key] of a Go map: the zero value "" for a key the map does not have
lookup(m, key) == IF key \in DOMAIN m THEN m[key] ELSE ""

\* differs answering true for equal values as well
differsAlways(a, b) == TRUE

\* the != of two strings or two integers
differs(a, b) == a # b

\* if a != b { changes = append(changes, fmt.Sprintf(...)) }
scalar(field, a, b) == IF differs(a, b) THEN <<Entry(field, a, b)>> ELSE <<>>

\* if len(a) != len(b) { changes = append(changes, fmt.Sprintf(...)) }
sized(field, a, b) == IF Len(a) # Len(b) THEN <<Entry(field, a, b)>> ELSE <<>>

\* for key, value := range desired.Tags { if currentTags[key] != value {...} }
\* ranging in the order given
tagEntries(currentTags, desiredTags, order) ==
    LET keep == SelectSeq(order, LAMBDA k : differs(lookup(currentTags, k), desiredTags[k]))
    IN  [ j \in 1..Len(keep) |->
            Entry("Tag " \o keep[j], lookup(currentTags, keep[j]), desiredTags[keep[j]]) ]

\* part_001:132-164
compareStates(cur, des, order) ==
    scalar("Instance Type", cur.InstanceType, des.InstanceType)
    \o scalar("AMI", cur.ImageId, des.AMI)
    \o scalar("Key Name", cur.KeyName, des.KeyName)
    \o sized("Security Groups", cur.SecurityGroups, des.SecurityGroups)
    \o tagEntries(mapOf(cur.Tags), des.Tags, order)

\* part_000:691-720
compareALBStates(cur, des, order) ==
    scalar("Scheme", cur.Scheme, des.Scheme)
    \o sized("Subnets", cur.AvailabilityZones, des.Subnets)
    \o sized("Security Groups", cur.SecurityGroups, des.SecurityGroups)
    \o tagEntries(mapOf(cur.Tags), des.Tags, order)

\* part_002:225-266
compareASGStates(cur, des, order) ==
    scalar("Min Size", cur.MinSize, des.MinSize)
    \o scalar("Max Size", cur.MaxSize, des.MaxSize)
    \o scalar("Desired Capacity", cur.DesiredCapacity, des.DesiredCapacity)
    \o scalar("Launch Template", cur.LaunchTemplateName, des.LaunchTemplate)
    \o sized("VPC Zone Identifier", cur.VPCZoneIdentifier, des.VpcZoneIdentifier)
    \o sized("Target Group ARNs", cur.TargetGroupARNs, des.TargetGroupARNs)
    \o tagEntries(mapOf(cur.Tags), des.Tags, order)

\* the differ of a resource kind
compare(d, cur, des, order) ==
    CASE d = "EC2" -> compareStates(cur, des, order)
      [] d = "ALB" -> compareALBStates(cur, des, order)
      [] d = "ASG" -> compareASGStates(cur, des, order)

\* the tags a resource may have and a configuration may ask for
TagKeys == {"env", "team"}

TagValues == {"dev", "prod"}

DesiredTags == UNION { [S -> TagValues] : S \in SUBSET TagKeys }

Tag(k, v) == [Key |-> k, Value |-> v]

CurrentTags ==
    {<<>>} \cup { <<Tag(k, v)>> : k \in TagKeys, v \in TagValues }
           \cup { <<Tag("env", v), Tag("team", w)>> : v, w \in TagValues }

\* the observed resources and the desired resources the differs are run on
Observed(d) ==
    CASE d = "EC2" ->
           [ InstanceType : {"t2.micro"}, ImageId : {"ami-1"}, KeyName : {"k1"},
             SecurityGroups : {<<"sg-1">>, <<"sg-1", "sg-2">>}, Tags : CurrentTags ]
      [] d = "ALB" ->
           [ Scheme : {"internet-facing"},
             AvailabilityZones : {<<"subnet-1">>, <<"subnet-1", "subnet-2">>},
             SecurityGroups : {<<"sg-1">>, <<"sg-1", "sg-2">>}, Tags : CurrentTags ]
      [] d = "ASG" ->
           [ MinSize : {1}, MaxSize : {3}, DesiredCapacity : {2},
             LaunchTemplateName : {"lt-1"}, VPCZoneIdentifier : {<<"subnet-1">>},
             TargetGroupARNs : {<<"tg-1">>}, Tags : CurrentTags ]

Lists(a, b) == {<<a>>, <<b>>, <<a, b>>}

Desired(d) ==
    CASE d = "EC2" ->
           [ InstanceType : {"t2.micro", "t3.small"}, AMI : {"ami-1", "ami-2"},
             KeyName : {"k1", "k2"}, SecurityGroups : Lists("sg-1", "sg-2"),
             Tags : DesiredTags ]
      [] d = "ALB" ->
           [ Scheme : {"internet-facing", "internal"},
             Subnets : Lists("subnet-1", "subnet-2"),
             SecurityGroups : Lists("sg-1", "sg-2"), Tags : DesiredTags ]
      [] d = "ASG" ->
           [ MinSize : {1, 2}, MaxSize : {3, 4}, DesiredCapacity : {2, 3},
             LaunchTemplate : {"lt-1", "lt-2"},
             VpcZoneIdentifier : Lists("subnet-1", "subnet-2"),
             TargetGroupARNs : Lists("tg-1", "tg-2"), Tags : DesiredTags ]

\* one run of the differ on current and desired
CompareOnce ==
    /\ pc = "diff_1"
    /\ \E order \in Perms(DOMAIN desired.Tags) :
         changes1' = compare(differ, current, desired, order)
    /\ pc' = "diff_2"
    /\ UNCHANGED <<fleetVars, i, n, errorLog, err, buckets, bucketTags, s3, trace, handlerVars, coVars,
                   differ, current, desired, changes2>>

\* a second run on the same arguments
CompareAgain ==
    /\ pc = "diff_2"
    /\ \E order \in Perms(DOMAIN desired.Tags) :
         changes2' = compare(differ, current, desired, order)
    /\ pc' = "diff_done"
    /\ UNCHANGED <<fleetVars, i, n, errorLog, err, buckets, bucketTags, s3, trace, handlerVars, coVars,
                   differ, current, desired, changes1>>

InitDiff ==
    /\ pc = "diff_1"
    /\ cfg = [Provider |-> "aws", Region |-> "us-east-1"]
    /\ provider = <<>>
    /\ nextId = 1
    /\ ret = ""
    /\ existingInstances = <<>>
    /\ instancesToCreate = 0
    /\ instancesToTerminate = 0
    /\ i = 0
    /\ n = 0
    /\ errorLog = <<>>
    /\ err = NoErr
    /\ fatal = NoErr
    /\ buckets = {}
    /\ bucketTags = {}
    /\ s3 = NoS3
    /\ trace = <<>>
    /\ NoHandler
    /\ differ \in {"EC2", "ALB", "ASG"}
    /\ current \in Observed(differ)
    /\ desired \in Desired(differ)
    /\ changes1 = <<>>
    /\ changes2 = <<>>
    /\ NoTasks

NextDiff ==
    \/ CompareOnce
    \/ CompareAgain

SpecDiff == InitDiff /\ [][NextDiff]_vars

----------------------------------------------------------------------------
(* The fetches that have to tell "not found" from a failure: findALBByName  *)
(* (part_000:671-688), findAutoScalingGroupByName (part_002:209-222) and    *)
(* checkS3BucketExists (go4gold.go:198-210), each followed by its handler:  *)
(* handleALB (part_000:622-668) and handleAutoScalingGroup                  *)
(* (part_002:156-206) have the statements of handleEC2Instance of           *)
(* go4gold.go after the fetch, handleS3Bucket is that of go4gold.go:440.    *)

\* a provider's answer to a describe call: the resources it lists, or an error
Answer(items, e) == [items |-> items, err |-> e]

\* what DescribeLoadBalancers(Names: [name]) may answer: the load balancer, or
\* LoadBalancerNotFound when there is none, or another error
DescribeLoadBalancers(l) ==
    (IF l = "absent" THEN {Answer(<<>>, ProviderErr("LoadBalancerNotFound"))}
     ELSE {Answer(<<"arn-1">>, NoErr)})
    \cup { Answer(<<>>, ProviderErr(e)) : e \in ProviderErrors }

\* what DescribeAutoScalingGroups(AutoScalingGroupNames: [name]) may answer:
\* the groups of that name (none when there is none), or an error
DescribeAutoScalingGroups(l) ==
    (IF l = "absent" THEN {Answer(<<>>, NoErr)} ELSE {Answer(<<"asg-1">>, NoErr)})
    \cup { Answer(<<>>, ProviderErr(e)) : e \in ProviderErrors }

\* what HeadBucket may answer: nil for a bucket that exists, NotFound for one
\* that does not, or another error
HeadBucket(b) ==
    (IF b \in buckets THEN {Answer(<<b>>, NoErr)} ELSE {Answer(<<>>, ProviderErr("NotFound"))})
    \cup { Answer(<<>>, ProviderErr(e)) : e \in ProviderErrors }

\* isNotFound that matches no error
isNotFoundNever(e) == FALSE

\* part_000:676-677, go4gold.go:203-204: errors.As(err, &notFound)
isNotFound(e) == e.msg \in {"LoadBalancerNotFound", "NotFound"}

\* part_000:671-688: the ARN findALBByName returns ("" = none) and its error
findALBByName(ans) ==
    IF ans.err # NoErr
    THEN IF isNotFound(ans.err) THEN [id |-> "", err |-> NoErr]
         ELSE [id |-> "", err |-> Errorf("failed to describe ALB", <<ans.err>>)]
    ELSE IF Len(ans.items) > 0 THEN [id |-> ans.items[1], err |-> NoErr]
    ELSE [id |-> "", err |-> NoErr]

\* part_002:209-222: the group findAutoScalingGroupByName returns ("" = nil)
\* and its error
findAutoScalingGroupByName(ans) ==
    IF ans.err # NoErr
    THEN [id |-> "", err |-> Errorf("failed to describe Auto Scaling Group", <<ans.err>>)]
    ELSE IF Len(ans.items) > 0 THEN [id |-> ans.items[1], err |-> NoErr]
    ELSE [id |-> "", err |-> NoErr]

\* go4gold.go:198-210
checkS3BucketExists(ans) ==
    IF ans.err # NoErr
    THEN IF isNotFound(ans.err) THEN [exists |-> FALSE, err |-> NoErr]
         ELSE [exists |-> FALSE,
               err |-> Errorf("failed to check bucket existence", <<ans.err>>)]
    ELSE [exists |-> TRUE, err |-> NoErr]

\* part_000:623-628, 659: handleALB fetches and branches
FindALB ==
    /\ pc = "alb_623"
    /\ \E ans \in DescribeLoadBalancers(live[kind]) :
         LET r == findALBByName(ans)
         IN  /\ hist' = Append(hist, Step(kind, "find", ans.items, ans.err))
             /\ IF r.err # NoErr
                THEN /\ err' = Errorf("failed to check for existing ALB", <<r.err>>)
                     /\ pc' = "go_return"
                     /\ UNCHANGED instanceID
                ELSE /\ instanceID' = r.id
                     /\ pc' = afterFind(r.id)
                     /\ UNCHANGED err
    /\ UNCHANGED <<fleetVars, i, n, errorLog, buckets, bucketTags, s3, trace, diffVars, coVars,
                   names, live, kind, changes, approval, bucketName, outcome>>

\* part_002:157-163, 197: handleAutoScalingGroup fetches and branches
FindASG ==
    /\ pc = "asg_158"
    /\ \E ans \in DescribeAutoScalingGroups(live[kind]) :
         LET r == findAutoScalingGroupByName(ans)
         IN  /\ hist' = Append(hist, Step(kind, "find", ans.items, ans.err))
             /\ IF r.err # NoErr
                THEN /\ err' = Errorf("failed to check for existing Auto Scaling Group",
                                      <<r.err>>)
                     /\ pc' = "go_return"
                     /\ UNCHANGED instanceID
                ELSE /\ instanceID' = r.id
                     /\ pc' = afterFind(r.id)
                     /\ UNCHANGED err
    /\ UNCHANGED <<fleetVars, i, n, errorLog, buckets, bucketTags, s3, trace, diffVars, coVars,
                   names, live, kind, changes, approval, bucketName, outcome>>

----------------------------------------------------------------------------
(* go4gold.go:352-504: the second program of the file.  Its main and        *)
(* handlers are those of the first with one difference: a handler returns   *)
(* nothing and ends the process with log.Fatalf where the first returns an  *)
(* error, and handleS3Bucket creates the bucket under the declared name     *)
(* when HeadBucket does not find it.                                        *)

fatalMainPc(k) == CASE k = "EC2" -> "gf_376" [] k = "S3" -> "gf_381" [] k = "RDS" -> "gf_386"

fatalAfterPc(k) == CASE k = "EC2" -> "gf_381" [] k = "S3" -> "gf_386" [] k = "RDS" -> "gf_389"

fatalHandlerPc(k) == IF k = "S3" THEN "gf_442" ELSE "gf_393"

\* go4gold.go:395, 421, 433, 444, 452, 462, 488, 500: log.Fatalf prints the
\* failure of kind k and ends the process with status 1
onError(k, e) ==
    /\ Fatal(e)
    /\ outcome' = [outcome EXCEPT ![k] = "Failed to handle"]

\* the variables the handlers of the second program leave alone
fatalFrame == <<cfg, provider, nextId, ret, existingInstances, instancesToCreate,
                instancesToTerminate, i, n, errorLog, err, bucketTags, s3, trace,
                diffVars, coVars, names, bucketName>>

\* go4gold.go:376, 381, 386: main tests the name of kind k and calls its handler
FatalMainStep(k) ==
    /\ pc = fatalMainPc(k)
    /\ IF declared(names[k])
       THEN kind' = k /\ pc' = fatalHandlerPc(k)
       ELSE pc' = fatalAfterPc(k) /\ UNCHANGED kind
    /\ UNCHANGED <<fatalFrame, fatal, buckets, live, instanceID, changes, approval, outcome, hist>>

\* go4gold.go:393-398 (460-465): the fetch by name
FatalFind ==
    /\ pc = "gf_393"
    /\ \E res \in {NoErr} \cup { ProviderErr(e) : e \in ProviderErrors } :
         /\ hist' = Append(hist, Step(kind, "find",
                                      IF res = NoErr THEN <<findResult(live[kind])>> ELSE <<>>,
                                      res))
         /\ IF res # NoErr
            THEN /\ onError(kind, Errorf("Failed to check for existing instance", <<res>>))
                 /\ UNCHANGED instanceID
            ELSE /\ instanceID' = findResult(live[kind])
                 /\ pc' = IF instanceID' # "" THEN "gf_407" ELSE "gf_431"
                 /\ UNCHANGED <<fatal, outcome>>
    /\ UNCHANGED <<fatalFrame, buckets, live, kind, changes, approval>>

\* go4gold.go:407-408, 427-429 (474-475, 494-496)
FatalCompare ==
    /\ pc = "gf_407"
    /\ changes' = compareResult(live[kind])
    /\ hist' = Append(hist, Step(kind, "compare", changes', NoErr))
    /\ IF needsApproval(changes')
       THEN pc' = "gf_414" /\ UNCHANGED outcome
       ELSE /\ outcome' = [outcome EXCEPT ![kind] = "No changes required."]
            /\ pc' = fatalAfterPc(kind)
    /\ UNCHANGED <<fatalFrame, fatal, buckets, live, kind, instanceID, approval>>

\* go4gold.go:414-418, 424-426 (481-485, 491-493)
FatalPrompt ==
    /\ pc = "gf_414"
    /\ \E line \in Lines :
         /\ approval' = Scanln(line)
         /\ hist' = Append(hist, Step(kind, "prompt", line, NoErr))
    /\ IF approved(approval')
       THEN pc' = "gf_419" /\ UNCHANGED outcome
       ELSE /\ outcome' = [outcome EXCEPT ![kind] = "Changes rejected."]
            /\ pc' = fatalAfterPc(kind)
    /\ UNCHANGED <<fatalFrame, fatal, buckets, live, kind, instanceID, changes>>

\* go4gold.go:419-423 (486-490)
FatalUpdate ==
    /\ pc = "gf_419"
    /\ \E res \in {NoErr} \cup { ProviderErr(e) : e \in ProviderErrors } :
         /\ hist' = Append(hist, Step(kind, "update", <<>>, res))
         /\ IF res # NoErr
            THEN /\ onError(kind, Errorf("Failed to update instance", <<res>>))
                 /\ \E l \in {live[kind], "partial"} : live' = [live EXCEPT ![kind] = l]
            ELSE /\ live' = [live EXCEPT ![kind] = "updated"]
                 /\ outcome' = [outcome EXCEPT ![kind] = "Changes applied successfully."]
                 /\ pc' = fatalAfterPc(kind)
                 /\ UNCHANGED fatal
    /\ UNCHANGED <<fatalFrame, buckets, kind, instanceID, changes, approval>>

\* go4gold.go:430-436 (497-503)
FatalCreate ==
    /\ pc = "gf_431"
    /\ \E res \in {NoErr} \cup { ProviderErr(e) : e \in ProviderErrors } :
         /\ hist' = Append(hist, Step(kind, "create", <<>>, res))
         /\ IF res # NoErr
            THEN /\ onError(kind, Errorf("Failed to create instance", <<res>>))
                 /\ UNCHANGED live
            ELSE /\ live' = [live EXCEPT ![kind] = "created"]
                 /\ outcome' = [outcome EXCEPT ![kind] = "Created"]
                 /\ pc' = fatalAfterPc(kind)
                 /\ UNCHANGED fatal
    /\ UNCHANGED <<fatalFrame, buckets, kind, instanceID, changes, approval>>

\* go4gold.go:441-449: handleS3Bucket asks whether the declared name exists
FatalCheckBucket ==
    /\ pc = "gf_442"
    /\ \E ans \in HeadBucket(names[kind]) :
         LET r == checkS3BucketExists(ans)
         IN  /\ hist' = Append(hist, Step(kind, "find", ans.items, ans.err))
             /\ IF r.err # NoErr
                THEN onError(kind, Errorf("Failed to check for existing S3 bucket", <<r.err>>))
                ELSE IF r.exists
                THEN /\ outcome' = [outcome EXCEPT ![kind] = "S3 bucket already exists"]
                     /\ pc' = fatalAfterPc(kind)
                     /\ UNCHANGED fatal
                ELSE pc' = "gf_450" /\ UNCHANGED <<fatal, outcome>>
    /\ UNCHANGED <<fatalFrame, buckets, live, kind, instanceID, changes, approval>>

\* go4gold.go:450-454: the create of a bucket that was not found
FatalCreateBucket ==
    /\ pc = "gf_450"
    /\ \E res \in {NoErr} \cup { ProviderErr(e) : e \in ProviderErrors } :
         /\ hist' = Append(hist, Step(kind, "create", <<names[kind]>>, res))
         /\ IF res # NoErr
            THEN /\ onError(kind, Errorf("Failed to create S3 bucket", <<res>>))
                 /\ UNCHANGED buckets
            ELSE /\ buckets' = buckets \cup {names[kind]}
                 /\ outcome' = [outcome EXCEPT ![kind] = "Created"]
                 /\ pc' = fatalAfterPc(kind)
                 /\ UNCHANGED fatal
    /\ UNCHANGED <<fatalFrame, live, kind, instanceID, changes, approval>>

InitGoFatal ==
    /\ pc = "gf_376"
    /\ cfg = [Provider |-> "aws", Region |-> "us-east-1"]
    /\ provider = <<>>
    /\ nextId = 1
    /\ ret = ""
    /\ existingInstances = <<>>
    /\ instancesToCreate = 0
    /\ instancesToTerminate = 0
    /\ i = 0
    /\ n = 0
    /\ errorLog = <<>>
    /\ err = NoErr
    /\ fatal = NoErr
    /\ buckets \in SUBSET {"assets"}
    /\ bucketTags = {}
    /\ s3 = NoS3
    /\ trace = <<>>
    /\ names \in { f \in [Kinds -> {"", "web", "assets", "db"}] :
                     \A k \in Kinds : f[k] \in {"", NameOf(k)} }
    /\ live \in [GateKinds -> {"absent", "converged", "drifted"}]
    /\ kind = ""
    /\ instanceID = ""
    /\ changes = <<>>
    /\ approval = ""
    /\ bucketName = ""
    /\ outcome = [k \in Kinds |-> "none"]
    /\ hist = <<>>
    /\ NoDiffer
    /\ NoTasks

NextGoFatal ==
    \/ \E k \in Kinds : FatalMainStep(k)
    \/ FatalFind
    \/ FatalCompare
    \/ FatalPrompt
    \/ FatalUpdate
    \/ FatalCreate
    \/ FatalCheckBucket
    \/ FatalCreateBucket

SpecGoFatal == InitGoFatal /\ [][NextGoFatal]_vars

----------------------------------------------------------------------------
(* handleS3Bucket of go4gold.go:161-179 on an account that may hold any of   *)
(* the names getUniqueBucketName tries                                      *)

\* the names getUniqueBucketName("assets") tries
ProbeNames == {"assets"} \cup { Sprintf("assets", k) : k \in 1..(UniqueTries - 1) }

InitProbe ==
    /\ pc = "go_162"
    /\ cfg = [Provider |-> "aws", Region |-> "us-east-1"]
    /\ provider = <<>>
    /\ nextId = 1
    /\ ret = ""
    /\ existingInstances = <<>>
    /\ instancesToCreate = 0
    /\ instancesToTerminate = 0
    /\ i = 0
    /\ n = 0
    /\ errorLog = <<>>
    /\ err = NoErr
    /\ fatal = NoErr
    /\ buckets \in SUBSET ProbeNames
    /\ bucketTags = {}
    /\ s3 = NoS3
    /\ trace = <<>>
    /\ names = [k \in Kinds |-> IF k = "S3" THEN "assets" ELSE ""]
    /\ live = [k \in GateKinds |-> "absent"]
    /\ kind = "S3"
    /\ instanceID = ""
    /\ changes = <<>>
    /\ approval = ""
    /\ bucketName = ""
    /\ outcome = [k \in Kinds |-> "none"]
    /\ hist = <<>>
    /\ NoDiffer
    /\ NoTasks

NextProbe ==
    \/ UniqueName
    \/ Probe
    \/ S3Attempt
    \/ S3Return

SpecProbe == InitProbe /\ [][NextProbe]_vars

----------------------------------------------------------------------------
(* main of part_001 (32-104) with findInstanceByName (107-129), on an        *)
(* account that may hold instances of the desired name in any state.  The   *)
(* attributes compareStates reads are not part of the account's instances   *)
(* here: the Change Set of the found instance is empty or not.              *)

\* the string form of an instance id
InstanceId(k) == "i-" \o ToString(k)

\* findInstanceByName asking for the instances that are not terminated only
findInstanceByNameLive(insts, name) ==
    LET found == DescribeInstances(insts, name)
    IN  IF found = <<>> THEN "" ELSE InstanceId(found[1].id)

\* part_001:107-128: the only filter is tag:Name, and the first instance of
\* the answer is returned ("" when the answer is empty)
findInstanceByName(insts, name) ==
    LET found == NameTagged(insts, name)
    IN  IF found = <<>> THEN "" ELSE InstanceId(found[1].id)

\* the variables the main of part_001 leaves alone
instFrame == <<cfg, ret, existingInstances, instancesToCreate, instancesToTerminate,
               i, n, errorLog, err, buckets, bucketTags, s3, trace, diffVars, coVars, names,
               live, kind, bucketName, outcome>>

\* part_001:54-60, 96: the fetch and the branch on its result
InstFind ==
    /\ pc = "p1_54"
    /\ \E res \in {NoErr} \cup { ProviderErr(e) : e \in ProviderErrors } :
         /\ hist' = Append(hist, Step("EC2", "find",
                                      IF res = NoErr THEN NameTagged(provider, cfg.Name)
                                      ELSE <<>>, res))
         /\ IF res # NoErr
            THEN /\ Fatal(Errorf("Failed to check for existing instance", <<res>>))
                 /\ UNCHANGED instanceID
            ELSE /\ instanceID' = findInstanceByName(provider, cfg.Name)
                 /\ pc' = IF instanceID' # "" THEN "p1_70" ELSE "p1_98"
                 /\ UNCHANGED fatal
    /\ UNCHANGED <<instFrame, provider, nextId, changes, approval>>

\* part_001:69-72, 92-94: compareStates on the found instance
InstCompare ==
    /\ pc = "p1_70"
    /\ \E c \in {<<>>, <<"change">>} :
         /\ changes' = c
         /\ hist' = Append(hist, Step("EC2", "compare", c, NoErr))
         /\ pc' = IF needsApproval(c) THEN "p1_81" ELSE "p1_end"
    /\ UNCHANGED <<instFrame, provider, nextId, fatal, instanceID, approval>>

\* part_001:79-83, 89-91: the prompt
InstPrompt ==
    /\ pc = "p1_81"
    /\ \E line \in Lines :
         /\ approval' = Scanln(line)
         /\ hist' = Append(hist, Step("EC2", "prompt", line, NoErr))
    /\ pc' = IF approved(approval') THEN "p1_85" ELSE "p1_end"
    /\ UNCHANGED <<instFrame, provider, nextId, fatal, instanceID, changes>>

\* part_001:85-88: updateEC2Instance on the found instance; when it succeeds
\* the instance has been started
InstUpdate ==
    /\ pc = "p1_85"
    /\ \E res \in {NoErr} \cup { ProviderErr(e) : e \in ProviderErrors } :
         /\ hist' = Append(hist, Step("EC2", "update", <<instanceID>>, res))
         /\ IF res # NoErr
            THEN /\ Fatal(Errorf("Failed to update EC2 instance", <<res>>))
                 /\ UNCHANGED provider
            ELSE /\ provider' = [k \in 1..Len(provider) |->
                                   IF InstanceId(provider[k].id) = instanceID
                                   THEN [provider[k] EXCEPT !.state = "pending"]
                                   ELSE provider[k]]
                 /\ pc' = "p1_end"
                 /\ UNCHANGED fatal
    /\ UNCHANGED <<instFrame, nextId, instanceID, changes, approval>>

\* part_001:97-102: createEC2Instance
InstCreate ==
    /\ pc = "p1_98"
    /\ \E res \in {NoErr} \cup { ProviderErr(e) : e \in ProviderErrors } :
         /\ hist' = Append(hist, Step("EC2", "create", <<>>, res))
         /\ RunInstances(cfg.Name, res)
         /\ IF res # NoErr
            THEN /\ Fatal(Errorf("Failed to create EC2 instance", <<res>>))
                 /\ UNCHANGED instanceID
            ELSE /\ instanceID' = InstanceId(nextId)
                 /\ pc' = "p1_end"
                 /\ UNCHANGED fatal
    /\ UNCHANGED <<instFrame, changes, approval>>

InitInst ==
    /\ pc = "p1_54"
    /\ cfg = [Provider |-> "aws", Region |-> "us-east-1", Name |-> "web"]
    /\ provider \in Accounts
    /\ nextId = Len(provider) + 1
    /\ ret = ""
    /\ existingInstances = <<>>
    /\ instancesToCreate = 0
    /\ instancesToTerminate = 0
    /\ i = 0
    /\ n = 0
    /\ errorLog = <<>>
    /\ err = NoErr
    /\ fatal = NoErr
    /\ buckets = {}
    /\ bucketTags = {}
    /\ s3 = NoS3
    /\ trace = <<>>
    /\ NoHandler
    /\ NoDiffer
    /\ NoTasks

NextInst ==
    \/ InstFind
    \/ InstCompare
    \/ InstPrompt
    \/ InstUpdate
    \/ InstCreate

SpecInst == InitInst /\ [][NextInst]_vars

----------------------------------------------------------------------------
(* The fetches, each followed by its handler *)

\* the kinds of SpecFind
FindKinds == {"ALB", "ASG", "S3"}

\* the names the configuration may give the resource
FindNames == {"assets", "web"}

InitFind ==
    /\ kind \in FindKinds
    /\ pc = CASE kind = "ALB" -> "alb_623" [] kind = "ASG" -> "asg_158" [] kind = "S3" -> "gf_442"
    /\ cfg = [Provider |-> "aws", Region |-> "us-east-1"]
    /\ provider = <<>>
    /\ nextId = 1
    /\ ret = ""
    /\ existingInstances = <<>>
    /\ instancesToCreate = 0
    /\ instancesToTerminate = 0
    /\ i = 0
    /\ n = 0
    /\ errorLog = <<>>
    /\ err = NoErr
    /\ fatal = NoErr
    /\ buckets \in IF kind = "S3" THEN SUBSET {"assets"} ELSE {{}}
    /\ bucketTags = {}
    /\ s3 = NoS3
    /\ trace = <<>>
    /\ names \in { [k \in FindKinds |-> nm] : nm \in FindNames }
    /\ live \in IF kind = "S3" THEN {[k \in {"ALB", "ASG"} |-> "absent"]}
                ELSE { [k \in {"ALB", "ASG"} |-> IF k = kind THEN l ELSE "absent"] :
                         l \in {"absent", "converged", "drifted"} }
    /\ instanceID = ""
    /\ changes = <<>>
    /\ approval = ""
    /\ bucketName = ""
    /\ outcome = [k \in FindKinds |-> "none"]
    /\ hist = <<>>
    /\ NoDiffer
    /\ NoTasks

NextFind ==
    \/ FindALB
    \/ FindASG
    \/ Compare
    \/ Prompt
    \/ Update
    \/ Create
    \/ FatalCheckBucket
    \/ FatalCreateBucket

SpecFind == InitFind /\ [][NextFind]_vars

----------------------------------------------------------------------------
(* updateEC2Instance, part_001:167-205, called as main calls it (85): on    *)
(* the instance findInstanceByName returned, whose Change Set is not empty, *)
(* with the desired resource of the configuration.  current is the          *)
(* provider's instance here: the calls of the update change it, and the     *)
(* fetch of a following pass returns it as it is then.                      *)

\* an instance of the account: the fields compareStates reads and the
\* lifecycle state
Instance(c, st) ==
    [ InstanceType |-> c.InstanceType, ImageId |-> c.ImageId, KeyName |-> c.KeyName,
      SecurityGroups |-> c.SecurityGroups, Tags |-> c.Tags, State |-> st ]

\* the Change Sets compareStates may return for cur and des
ChangeSets(cur, des) == { compareStates(cur, des, order) : order \in Perms(DOMAIN des.Tags) }

\* the variables updateEC2Instance leaves alone
updateFrame == <<fleetVars, i, n, errorLog, buckets, bucketTags, s3, handlerVars, coVars,
                 differ, desired, changes1>>

\* part_001:169-174, StopInstances
UpdateStop ==
    /\ pc = "up_169"
    /\ \E res \in {NoErr} \cup { ProviderErr(e) : e \in ProviderErrors } :
         /\ trace' = Append(trace, Call("StopInstances", <<>>, res))
         /\ IF res # NoErr
            THEN /\ err' = Errorf("failed to stop instance", <<res>>)
                 /\ pc' = "up_return"
                 /\ UNCHANGED current
            ELSE /\ current' = [current EXCEPT !.State = "stopping"]
                 /\ pc' = "up_178"
                 /\ UNCHANGED err
    /\ UNCHANGED <<updateFrame, changes2>>

\* part_001:177-183, the waiter: it returns nil once the instance is stopped,
\* or an error when the time it is given runs out first
UpdateWait ==
    /\ pc = "up_178"
    /\ \E res \in {NoErr, ProviderErr("exceeded max wait time")} :
         /\ trace' = Append(trace, Call("InstanceStoppedWaiter", <<>>, res))
         /\ IF res # NoErr
            THEN /\ err' = Errorf("failed to wait for instance to stop", <<res>>)
                 /\ pc' = "up_return"
                 /\ UNCHANGED current
            ELSE /\ current' = [current EXCEPT !.State = "stopped"]
                 /\ pc' = "up_186"
                 /\ UNCHANGED err
    /\ UNCHANGED <<updateFrame, changes2>>

\* UpdateModify going on to StartInstances when the call failed
UpdateModifyGoesOn ==
    /\ pc = "up_186"
    /\ \E res \in {NoErr} \cup { ProviderErr(e) : e \in ProviderErrors } :
         /\ trace' = Append(trace, Call("ModifyInstanceAttribute", <<>>, res))
         /\ IF res # NoErr
            THEN /\ err' = Errorf("failed to modify instance type", <<res>>)
                 /\ UNCHANGED current
            ELSE /\ current' = [current EXCEPT !.InstanceType = desired.InstanceType]
                 /\ UNCHANGED err
    /\ pc' = "up_197"
    /\ UNCHANGED <<updateFrame, changes2>>

\* part_001:186-194, ModifyInstanceAttribute with the instance type only
UpdateModify ==
    /\ pc = "up_186"
    /\ \E res \in {NoErr} \cup { ProviderErr(e) : e \in ProviderErrors } :
         /\ trace' = Append(trace, Call("ModifyInstanceAttribute", <<>>, res))
         /\ IF res # NoErr
            THEN /\ err' = Errorf("failed to modify instance type", <<res>>)
                 /\ pc' = "up_return"
                 /\ UNCHANGED current
            ELSE /\ current' = [current EXCEPT !.InstanceType = desired.InstanceType]
                 /\ pc' = "up_197"
                 /\ UNCHANGED err
    /\ UNCHANGED <<updateFrame, changes2>>

\* part_001:197-204, StartInstances and the return of nil
UpdateStart ==
    /\ pc = "up_197"
    /\ \E res \in {NoErr} \cup { ProviderErr(e) : e \in ProviderErrors } :
         /\ trace' = Append(trace, Call("StartInstances", <<>>, res))
         /\ IF res # NoErr
            THEN /\ err' = Errorf("failed to start instance", <<res>>)
                 /\ UNCHANGED current
            ELSE /\ current' = [current EXCEPT !.State = "pending"]
                 /\ err' = NoErr
    /\ pc' = "up_return"
    /\ UNCHANGED <<updateFrame, changes2>>

\* part_001:70 in a following pass with the same configuration: compareStates
\* on the instance as the update left it
CompareAfterUpdate ==
    /\ pc = "up_return"
    /\ err = NoErr
    /\ changes2' \in ChangeSets(current, desired)
    /\ pc' = "up_done"
    /\ UNCHANGED <<updateFrame, current, err, trace>>

InitUpdate ==
    /\ pc = "up_169"
    /\ cfg = [Provider |-> "aws", Region |-> "us-east-1"]
    /\ provider = <<>>
    /\ nextId = 1
    /\ ret = ""
    /\ existingInstances = <<>>
    /\ instancesToCreate = 0
    /\ instancesToTerminate = 0
    /\ i = 0
    /\ n = 0
    /\ errorLog = <<>>
    /\ err = NoErr
    /\ fatal = NoErr
    /\ buckets = {}
    /\ bucketTags = {}
    /\ s3 = NoS3
    /\ trace = <<>>
    /\ NoHandler
    /\ differ = "EC2"
    /\ current \in { Instance(c, st) : c \in Observed("EC2"), st \in {"running", "stopped"} }
    /\ desired \in Desired("EC2")
    /\ changes1 \in ChangeSets(current, desired)
    /\ Len(changes1) > 0
    /\ changes2 = <<>>
    /\ NoTasks

NextUpdate ==
    \/ UpdateStop
    \/ UpdateWait
    \/ UpdateModify
    \/ UpdateStart
    \/ CompareAfterUpdate

SpecUpdate == InitUpdate /\ [][NextUpdate]_vars

----------------------------------------------------------------------------
(* part_000:169-205 and 393-465: main starts one goroutine for each kind    *)
(* the configuration names, waits for all of them, closes errChan and logs  *)
(* what errChan holds.  The first main (106-205) runs handleEC2Instance     *)
(* (207-242) and handleIAMRole (244-272); the handlers the second main      *)
(* (360-465) calls are not part of its file: a call of one is a step that   *)
(* returns nil or an error.                                                 *)

\* part_000:174, 186: the kinds of the first main
KindsA == {"EC2", "IAM"}

\* part_000:398, 410, 422, 434, 446: the kinds of the second main
KindsB == {"EC2", "S3", "RDS", "ALB", "ASG"}

\* the order in which main reaches the kinds
launchOrder(ks) ==
    IF ks = KindsA THEN <<"EC2", "IAM">> ELSE <<"EC2", "S3", "RDS", "ALB", "ASG">>

\* a channel of one slot
capacityOne(ks) == 1

\* a channel one slot short of the kinds
capacityShort(ks) == IF ks = KindsA THEN 1 ELSE 4

\* part_000:171, 395: make(chan error, 2), make(chan error, 5)
capacity(ks) == IF ks = KindsA THEN 2 ELSE 5

\* a Wait that returns at once
waitDoneAlways(w) == TRUE

\* part_000:198, 458: wg.Wait() returns when the counter is zero
waitDone(w) == w = 0

\* the label main gives the error of a kind (part_000:179, 191, 403, ...)
label(k) ==
    CASE k = "EC2" -> "EC2 instance error"
      [] k = "IAM" -> "IAM role error"
      [] k = "S3" -> "S3 bucket error"
      [] k = "RDS" -> "RDS instance error"
      [] k = "ALB" -> "ALB error"
      [] k = "ASG" -> "Auto Scaling Group error"

\* the process runs: main has not returned and nothing has panicked
Running == exitCode = -1

\* the kinds of the second main whose handler has an Approval Gate
\* (go4gold.go:133-137, 278-282, part_000:643-647)
GatedKinds == {"EC2", "RDS", "ALB"}

\* the handler of kind k finds its resource and a Change Set that is not empty
drifted(k) == k \in DOMAIN live /\ live[k] = "drifted"

\* what a handler has read at its prompt: nothing yet
NoAnswer == [line |-> "", to |-> ""]

\* At with a goroutine standing still while another waits at its prompt
AtUnlessGated(k, p) ==
    /\ exitCode = -1 /\ k \in DOMAIN tasks /\ tasks[k] = p
    /\ \A o \in DOMAIN tasks \ {k} : tasks[o] # "gate"

\* the goroutine of kind k is at position p
At(k, p) == Running /\ k \in DOMAIN tasks /\ tasks[k] = p

\* part_000:177-181: the goroutine has the handler's error e: it goes to the
\* send when e is not nil, and to the deferred wg.Done() otherwise
returned(k, e) ==
    /\ taskErr' = [taskErr EXCEPT ![k] = IF e = NoErr THEN NoErr
                                         ELSE Errorf(label(k), <<e>>)]
    /\ tasks' = [tasks EXCEPT ![k] = IF e = NoErr THEN "deferred" ELSE "send"]

coFrame == <<cfg, provider, nextId, ret, existingInstances, instancesToCreate,
             instancesToTerminate, n, errorLog, err, fatal, buckets, bucketTags, s3,
             trace, diffVars, names, live, kind, instanceID, changes, bucketName,
             outcome>>

\* part_000:174-183, 186-195 (398-455): if the kind is named, wg.Add(1) and go
Launch ==
    /\ Running
    /\ pc = "co_launch"
    /\ LET order == launchOrder(DOMAIN tasks)
           k == order[i]
       IN  /\ IF declared(names[k])
              THEN wg' = wg + 1 /\ tasks' = [tasks EXCEPT ![k] = "run"]
              ELSE UNCHANGED <<wg, tasks>>
           /\ pc' = IF i = Len(order) THEN "co_wait" ELSE pc
    /\ i' = i + 1
    /\ UNCHANGED <<coFrame, approval, hist, errChan, closed, logged, taskErr, exitCode, policies,
                   attached>>

\* part_000:198, 458: wg.Wait()
Wait ==
    /\ Running
    /\ pc = "co_wait"
    /\ waitDone(wg)
    /\ pc' = "co_close"
    /\ UNCHANGED <<coFrame, approval, i, hist, coVars>>

\* part_000:199, 459: close(errChan)
Close ==
    /\ Running
    /\ pc = "co_close"
    /\ closed' = TRUE
    /\ pc' = "co_range"
    /\ UNCHANGED <<coFrame, approval, i, hist, tasks, wg, errChan, logged, taskErr, exitCode,
                   policies, attached>>

\* part_000:202-205, 462-465: for err := range errChan { log.Println(err) },
\* and main returns when the closed channel is empty
Range ==
    /\ Running
    /\ pc = "co_range"
    /\ IF errChan # <<>>
       THEN /\ logged' = Append(logged, Head(errChan))
            /\ errChan' = Tail(errChan)
            /\ UNCHANGED <<pc, exitCode>>
       ELSE /\ closed
            /\ pc' = "co_exit"
            /\ exitCode' = 0
            /\ UNCHANGED <<logged, errChan>>
    /\ UNCHANGED <<coFrame, approval, i, hist, tasks, wg, closed, taskErr, policies, attached>>

\* part_000:207-242: handleEC2Instance of the first main, RunInstances
RunEC2(k) ==
    /\ At(k, "run")
    /\ DOMAIN tasks = KindsA /\ k = "EC2"
    /\ \E res \in {NoErr} \cup { ProviderErr(e) : e \in ProviderErrors } :
         /\ hist' = Append(hist, Step(k, "RunInstances", <<>>, res))
         /\ returned(k, IF res = NoErr THEN NoErr
                        ELSE Errorf("failed to create EC2 instance", <<res>>))
    /\ UNCHANGED <<coFrame, approval, i, pc, wg, errChan, closed, logged, exitCode, policies, attached>>

\* part_000:244-254: handleIAMRole, CreateRole
RunIAM(k) ==
    /\ At(k, "run")
    /\ DOMAIN tasks = KindsA /\ k = "IAM"
    /\ \E res \in {NoErr} \cup { ProviderErr(e) : e \in ProviderErrors } :
         /\ hist' = Append(hist, Step(k, "CreateRole", <<>>, res))
         /\ IF res = NoErr
            THEN tasks' = [tasks EXCEPT ![k] = "policy"] /\ UNCHANGED taskErr
            ELSE returned(k, Errorf("failed to create IAM role", <<res>>))
    /\ UNCHANGED <<coFrame, approval, i, pc, wg, errChan, closed, logged, exitCode, policies, attached>>

\* part_000:256-271: handleIAMRole, the loop over the policies
AttachPolicy(k) ==
    /\ At(k, "policy")
    /\ IF attached = policies
       THEN returned(k, NoErr) /\ UNCHANGED <<hist, attached>>
       ELSE \E res \in {NoErr} \cup { ProviderErr(e) : e \in ProviderErrors } :
              /\ hist' = Append(hist, Step(k, "PutRolePolicy", <<attached + 1>>, res))
              /\ IF res = NoErr
                 THEN attached' = attached + 1 /\ UNCHANGED <<tasks, taskErr>>
                 ELSE /\ returned(k, Errorf("failed to attach policy", <<res>>))
                      /\ UNCHANGED attached
    /\ UNCHANGED <<coFrame, approval, i, pc, wg, errChan, closed, logged, exitCode, policies>>

\* part_000:401, 413, 425, 437, 449: the call of a handler of the second main.
\* It returns an error, or nil when there is nothing to ask, or it comes to a
\* point where it waits: a handler with an Approval Gate and a Change Set to
\* its prompt (as go4gold.go:133-137), the handler of the S3 bucket to the
\* delay of retry.Do (as go4gold.go:213-252)
RunHandler(k) ==
    /\ At(k, "run")
    /\ DOMAIN tasks = KindsB
    /\ \/ \E res \in {Errorf("failed to handle", <<>>)}
                      \cup (IF drifted(k) THEN {} ELSE {NoErr}) : returned(k, res)
       \/ /\ drifted(k)
          /\ tasks' = [tasks EXCEPT ![k] = "gate"]
          /\ UNCHANGED taskErr
       \/ /\ k = "S3"
          /\ tasks' = [tasks EXCEPT ![k] = "delay"]
          /\ UNCHANGED taskErr
    /\ UNCHANGED <<coFrame, approval, i, pc, hist, wg, errChan, closed, logged, exitCode,
                   policies, attached>>

\* fmt.Scanln(&approval) of the handlers that wait at their prompt (as
\* go4gold.go:135): the operator types a line as the answer to the prompt of
\* kind g; all handlers read the one standard input, so the line goes to any
\* one of those that wait, r.  r goes on to its update when the line is
\* "yes" and returns nil otherwise; approval is a local variable of the
\* handler and is gone when the handler returns
ReadLine ==
    /\ Running
    /\ \E g, r \in { k \in DOMAIN tasks : tasks[k] = "gate" } :
         \E line \in {"yes", "no"} :
           IF approved(line)
           THEN /\ approval' = [approval EXCEPT ![r] = [line |-> line, to |-> g]]
                /\ tasks' = [tasks EXCEPT ![r] = "update"]
                /\ UNCHANGED taskErr
           ELSE /\ returned(r, NoErr)
                /\ UNCHANGED approval
    /\ UNCHANGED <<coFrame, i, pc, hist, wg, errChan, closed, logged, exitCode, policies,
                   attached>>

\* the update of a handler whose prompt was answered "yes" (as
\* go4gold.go:138-142)
ApplyUpdate(k) ==
    /\ At(k, "update")
    /\ \E res \in {NoErr, Errorf("failed to update", <<>>)} : returned(k, res)
    /\ approval' = [approval EXCEPT ![k] = NoAnswer]
    /\ UNCHANGED <<coFrame, i, pc, hist, wg, errChan, closed, logged, exitCode,
                   policies, attached>>

\* the delay of retry.Do is over and the next attempt returns nil or an error
Wake(k) ==
    /\ At(k, "delay")
    /\ \E res \in {NoErr, Errorf("failed to handle", <<>>)} : returned(k, res)
    /\ UNCHANGED <<coFrame, approval, i, pc, hist, wg, errChan, closed, logged, exitCode,
                   policies, attached>>

\* part_000:179, 191 (403, ...): errChan <- err; the send waits for a free
\* slot, and panics on a closed channel
Send(k) ==
    /\ At(k, "send")
    /\ IF closed
       THEN exitCode' = 2 /\ UNCHANGED <<errChan, tasks>>
       ELSE /\ Len(errChan) < capacity(DOMAIN tasks)
            /\ errChan' = Append(errChan, taskErr[k])
            /\ tasks' = [tasks EXCEPT ![k] = "deferred"]
            /\ UNCHANGED exitCode
    /\ UNCHANGED <<coFrame, approval, i, pc, hist, wg, closed, logged, taskErr, policies, attached>>

\* part_000:176, 188 (400, ...): defer wg.Done()
Done(k) ==
    /\ At(k, "deferred")
    /\ wg' = wg - 1
    /\ tasks' = [tasks EXCEPT ![k] = "done"]
    /\ UNCHANGED <<coFrame, approval, i, pc, hist, errChan, closed, logged, taskErr, exitCode,
                   policies, attached>>

\* a step of the goroutine of kind k
TaskStep(k) ==
    \/ RunEC2(k)
    \/ RunIAM(k)
    \/ AttachPolicy(k)
    \/ RunHandler(k)
    \/ ApplyUpdate(k)
    \/ Wake(k)
    \/ Send(k)
    \/ Done(k)

\* a step of main
CoMainStep ==
    \/ Launch
    \/ Wait
    \/ Close
    \/ Range

InitCo ==
    /\ pc = "co_launch"
    /\ cfg = [Provider |-> "aws", Region |-> "us-east-1"]
    /\ provider = <<>>
    /\ nextId = 1
    /\ ret = ""
    /\ existingInstances = <<>>
    /\ instancesToCreate = 0
    /\ instancesToTerminate = 0
    /\ i = 1
    /\ n = 0
    /\ errorLog = <<>>
    /\ err = NoErr
    /\ fatal = NoErr
    /\ buckets = {}
    /\ bucketTags = {}
    /\ s3 = NoS3
    /\ trace = <<>>
    /\ \E ks \in {KindsA, KindsB} :
         /\ names \in [ks -> {"", "web"}]
         /\ tasks = [k \in ks |-> "idle"]
         /\ taskErr = [k \in ks |-> NoErr]
         /\ outcome = [k \in ks |-> "none"]
         /\ approval = [k \in ks |-> NoAnswer]
         /\ policies \in IF ks = KindsA THEN 0..MaxPolicies ELSE {0}
    /\ live \in [GatedKinds -> {"absent", "drifted"}]
    /\ \A k \in GatedKinds : drifted(k) => k \in DOMAIN names /\ names[k] # ""
    /\ (\E k \in GatedKinds : drifted(k)) =>
          Cardinality({ k \in DOMAIN names : names[k] # "" }) <= MaxNamed
    /\ Cardinality({ k \in GatedKinds : drifted(k) }) <= MaxDrifted
    /\ kind = ""
    /\ instanceID = ""
    /\ changes = <<>>
    /\ bucketName = ""
    /\ hist = <<>>
    /\ wg = 0
    /\ errChan = <<>>
    /\ closed = FALSE
    /\ logged = <<>>
    /\ exitCode = -1
    /\ attached = 0
    /\ NoDiffer

\* a step of the program
ProgramStep ==
    \/ CoMainStep
    \/ \E k \in KindsA \cup KindsB : TaskStep(k)

NextCo ==
    \/ ProgramStep
    \/ ReadLine

SpecCo == InitCo /\ [][NextCo]_vars

\* SpecCo with the scheduler of the Go runtime and an operator who answers:
\* while main, a goroutine or the operator can take a step, one of them does
SpecCoFair == SpecCo /\ WF_vars(NextCo)

\* SpecCo with the scheduler only: while main or a goroutine can take a step,
\* one of them does; the operator may never answer
SpecCoGate == SpecCo /\ WF_vars(ProgramStep)

----------------------------------------------------------------------------
(* Properties *)

CallIdx(op) == { k \in 1..Len(trace) : trace[k].ev = "call" /\ trace[k].op = op }

OkCallIdx(op) == { k \in CallIdx(op) : trace[k].res = NoErr }

\* the evaluations of the wrapped operation op by its inv-th wrapper invocation
AttemptIdx(op, inv) ==
    { k \in 1..Len(trace) : trace[k].ev = "attempt" /\ trace[k].op = op /\ trace[k].inv = inv }

FailedAttemptIdx(op, inv) == { k \in AttemptIdx(op, inv) : trace[k].res # NoErr }

\* getExistingInstances returned a list in this pass
Fetched == OkCallIdx("DescribeInstances") # {}

\* the instances launched in this pass that are live
NewLive == { k \in 1..Len(provider) : provider[k].new /\ provider[k].state \in DescribeStates }

Ended == pc \in {"done", "exit"}

\* C1: whenever the fetch returned as many instances as desired_count, the
\* pass ends at once and issues neither RunInstances nor TerminateInstances.
C1_NoCallWhenCountsEqual ==
    (Fetched /\ Len(existingInstances) = cfg.DesiredCount) =>
        /\ pc \in {"main_112", "done"}
        /\ CallIdx("RunInstances") = {}
        /\ CallIdx("TerminateInstances") = {}
        /\ provider = [k \in 1..Len(provider) |-> [provider[k] EXCEPT !.new = FALSE]]

C1_Witness ==
    /\ pc = "done"
    /\ Fetched
    /\ Len(existingInstances) = cfg.DesiredCount
    /\ Len(existingInstances) = 2
    /\ Len(provider) = 3

\* C2: a scale-up pass by d = desired_count - observed > 0 in which every
\* create succeeds completes exactly d creates: d wrapper invocations, each
\* ending with the one successful RunInstances of that invocation, d instances
\* launched, and no TerminateInstances.
C2_ScaleUpCreatesExactlyDelta ==
    (pc = "done" /\ Fetched /\ cfg.DesiredCount > Len(existingInstances)) =>
        LET d == cfg.DesiredCount - Len(existingInstances) IN
        /\ instancesToCreate = d
        /\ Cardinality(OkCallIdx("RunInstances")) = d
        /\ Cardinality(NewLive) = d
        /\ \A j \in 0..(d - 1) :
             Cardinality(AttemptIdx("createEC2Instance", j)
                         \ FailedAttemptIdx("createEC2Instance", j)) = 1
        /\ \A k \in 1..Len(trace) : trace[k].ev = "attempt" => trace[k].inv \in 0..(d - 1)
        /\ CallIdx("TerminateInstances") = {}

C2_Witness ==
    /\ pc = "done"
    /\ Len(existingInstances) = 0
    /\ cfg.DesiredCount = 2
    /\ Cardinality(OkCallIdx("RunInstances")) = 2
    /\ Cardinality(CallIdx("RunInstances")) = 4

\* the j-th wrapper invocation of the pass (j from 0) used up its attempts
Exhausted(j) == Cardinality(FailedAttemptIdx("createEC2Instance", j)) = Attempts

\* C3: once create number j+1 of a scale-up has failed on all its attempts, the
\* pass ends as failed with that create: no later create is attempted, no
\* TerminateInstances is issued, and exactly the j instances created before
\* it in this pass are live.
C3_PartialFleetFailure ==
    \A j \in 0..MaxDesired :
        Exhausted(j) =>
            /\ pc \in {"main_127", "exit"}
            /\ i = j
            /\ err # NoErr
            /\ pc = "exit" => (fatal.msg = "Failed to create EC2 instance" /\ fatal.causes = <<err>>)
            /\ \A k \in 1..Len(trace) : trace[k].ev = "attempt" => trace[k].inv <= j
            /\ Cardinality(CallIdx("RunInstances")) = Cardinality(OkCallIdx("RunInstances")) + Cardinality(UNION { FailedAttemptIdx("createEC2Instance", m) : m \in 0..j })
            /\ Cardinality(OkCallIdx("RunInstances")) = j
            /\ Cardinality(NewLive) = j
            /\ CallIdx("TerminateInstances") = {}

C3_Witness ==
    /\ pc = "exit"
    /\ Exhausted(1)
    /\ instancesToCreate = 2
    /\ Cardinality(NewLive) = 1
    /\ Len(existingInstances) = 0

\* C4: a pass that finds m = observed - desired_count > 0 issues exactly one
\* TerminateInstances, naming the first m ids of the fetched list in the
\* fetched order, and no RunInstances.
C4_ScaleDownTerminatesFirstM ==
    (Ended /\ Fetched /\ Len(existingInstances) > cfg.DesiredCount) =>
        LET m == Len(existingInstances) - cfg.DesiredCount IN
        /\ Cardinality(CallIdx("TerminateInstances")) = 1
        /\ \A k \in CallIdx("TerminateInstances") :
             /\ trace[k].ids = SubSeq(existingInstances, 1, m)
             /\ Cardinality(SeqRange(trace[k].ids)) = m
        /\ CallIdx("RunInstances") = {}

C4_Witness ==
    /\ pc = "done"
    /\ Len(existingInstances) = 3
    /\ cfg.DesiredCount = 1
    /\ \E k \in CallIdx("TerminateInstances") : Len(trace[k].ids) = 2
    /\ Cardinality({ k \in 1..Len(provider) : provider[k].state = "shutting-down" }) = 2

\* C5: the TerminateInstances call of terminateExcessInstances(instances, count)
\* names min(count, len(instances)) ids, all of them ids of instances.
C5_TerminateClipped ==
    pc = "fn_return" =>
        \A k \in CallIdx("TerminateInstances") :
            /\ Len(trace[k].ids) = Min(instancesToTerminate, Len(existingInstances))
            /\ SeqRange(trace[k].ids) \subseteq SeqRange(existingInstances)

C5_Witness ==
    /\ pc = "fn_return"
    /\ instancesToTerminate > Len(existingInstances)
    /\ Len(existingInstances) = 2
    /\ \E k \in CallIdx("TerminateInstances") : Len(trace[k].ids) = 2

WrappedOps == {"createEC2Instance", "createS3Bucket"}

\* C7: one invocation of the retry wrapper evaluates the wrapped operation at
\* most Attempts (3) times, and never again after an evaluation that succeeded.
C7_AtMostThreeAttempts ==
    \A op \in WrappedOps : \A j \in 0..MaxDesired :
        /\ Cardinality(AttemptIdx(op, j)) <= Attempts
        /\ \A k, l \in AttemptIdx(op, j) : k < l => trace[k].res # NoErr

C7_Witness ==
    /\ pc = "s3_return"
    /\ Cardinality(AttemptIdx("createS3Bucket", 0)) = Attempts
    /\ Cardinality(FailedAttemptIdx("createS3Bucket", 0)) = Attempts - 1

\* the j-th wrapper invocation failed twice and succeeded on its third attempt
ThirdTimeLucky(j) ==
    /\ Cardinality(AttemptIdx("createEC2Instance", j)) = 3
    /\ Cardinality(FailedAttemptIdx("createEC2Instance", j)) = 2

\* C8: a create that fails twice and succeeds on the third attempt returns nil
\* from the wrapper, and the pass does not fail with it.
C8_ThirdAttemptSuccess ==
    \A j \in 0..MaxDesired :
        ThirdTimeLucky(j) =>
            /\ (pc = "main_127" /\ i = j) => err = NoErr
            /\ pc = "exit" => i # j
            /\ (pc = "done" /\ i = instancesToCreate) => fatal = NoErr

C8_Witness ==
    /\ pc = "done"
    /\ instancesToCreate = 1
    /\ ThirdTimeLucky(0)
    /\ err = NoErr

\* the error of the last evaluation of op
LastAttemptErr(op) ==
    LET idx == AttemptIdx(op, 0)
        last == CHOOSE k \in idx : \A l \in idx : l <= k
    IN  trace[last].res

\* C9 as claimed: when all 3 attempts of a wrapped provider operation fail, the
\* wrapper returns the error of the 3rd attempt itself.
C9_LastErrorUnchanged ==
    \A op \in WrappedOps :
        (pc \in {"fn_return", "s3_return"}
            /\ createValidation(cfg) = NoErr
            /\ Cardinality(FailedAttemptIdx(op, 0)) = Attempts)
        => err = LastAttemptErr(op)

C11_NoReissueAfterSuccess ==
    \A k \in OkCallIdx("CreateBucket") :
        \A l \in CallIdx("CreateBucket") : l <= k

\* the positions in hist of the steps op of the handler of kind k
StepIdx(k, op) == { j \in 1..Len(hist) : hist[j].kind = k /\ hist[j].op = op }

\* the positions in hist of the prompts of kind k the operator answered with a
\* line of the set ls
AnsweredIdx(k, ls) == { j \in StepIdx(k, "prompt") : hist[j].arg \in ls }

\* main of go4gold.go has reached its end
GoEnded == pc = "go_108"

\* C12: when the operator answers the prompt of a found resource that has a
\* non-empty Change Set with exactly "yes", the pass invokes the update exactly
\* once (never more, and once by the time the program ends).
C12_YesUpdatesOnce ==
    \A k \in GateKinds :
        /\ Cardinality(StepIdx(k, "update")) <= 1
        /\ (GoEnded /\ AnsweredIdx(k, {<<"yes">>}) # {}) =>
               /\ \E j \in StepIdx(k, "compare") : Len(hist[j].arg) > 0
               /\ Cardinality(StepIdx(k, "update")) = 1

C12_Witness ==
    /\ GoEnded
    /\ AnsweredIdx("EC2", {<<"yes">>}) # {}
    /\ live["EC2"] = "updated"
    /\ outcome["EC2"] = "Changes applied successfully."

\* C13 as claimed: any operator input other than the exact string "yes" ends
\* the pass with no mutating call, the live resource as it was, and no error
\* from the handler.
C13_OtherInputRejected ==
    \A k \in GateKinds :
        AnsweredIdx(k, Lines \ {<<"yes">>}) # {} =>
            /\ StepIdx(k, "update") = {}
            /\ StepIdx(k, "create") = {}
            /\ live[k] = "drifted"
            /\ outcome[k] # "Failed to handle"

\* C14: a handler that did not find its resource, and the handler of the S3
\* bucket, which only creates, never prompt the operator.
C14_NoPromptOnCreatePath ==
    \A k \in Kinds :
        (k = "S3" \/ \E j \in StepIdx(k, "find") : hist[j].arg = <<"">>) =>
            StepIdx(k, "prompt") = {}

C14_Witness ==
    /\ GoEnded
    /\ \E j \in StepIdx("EC2", "find") : hist[j].arg = <<"">>
    /\ \E j \in StepIdx("EC2", "create") : hist[j].res = NoErr
    /\ live["EC2"] = "created"
    /\ outcome["S3"] = "Created"

\* C15: when the differ returns an empty Change Set for a found resource, the
\* handler neither prompts nor issues a mutating call, and the pass reports
\* that no change is required.
C15_EmptyChangeSetConverged ==
    \A k \in GateKinds :
        (\E j \in StepIdx(k, "compare") : hist[j].arg = <<>>) =>
            /\ StepIdx(k, "prompt") = {}
            /\ StepIdx(k, "update") = {}
            /\ StepIdx(k, "create") = {}
            /\ live[k] = "converged"
            /\ (GoEnded => outcome[k] = "No changes required.")

C15_Witness ==
    /\ GoEnded
    /\ \E j \in StepIdx("RDS", "compare") : hist[j].arg = <<>>
    /\ outcome["RDS"] = "No changes required."
    /\ outcome["EC2"] = "No changes required."

\* C20: a resource kind whose name is unset is skipped: its handler takes no
\* step (no fetch, no create, no update), the program reports nothing for it,
\* and for the bucket no S3 call is issued; every kind that has a name is
\* still handled by the time the program ends.
C20_UnsetKindSkipped ==
    /\ \A k \in Kinds :
         names[k] = "" =>
             /\ \A j \in 1..Len(hist) : hist[j].kind # k
             /\ outcome[k] = "none"
             /\ (k = "S3" => trace = <<>>)
             /\ (k \in GateKinds => live[k] \in {"absent", "converged", "drifted"})
    /\ GoEnded => \A k \in Kinds : names[k] # "" => outcome[k] # "none"

C20_Witness ==
    /\ GoEnded
    /\ names["EC2"] = ""
    /\ live["EC2"] = "drifted"
    /\ names["S3"] # ""
    /\ outcome["S3"] = "Created"
    /\ names["RDS"] # ""
    /\ outcome["RDS"] = "Changes applied successfully."

\* the field pairs (observed, desired) a differ compares, in the order of the
\* declaration: the scalar fields, the set-valued fields (many = TRUE), and
\* one pair for every tag key of the desired resource
Pair(field, from, to, many) == [field |-> field, from |-> from, to |-> to, many |-> many]

TagPairs ==
    LET keys == SelectSeq(<<"env", "team">>, LAMBDA k : k \in DOMAIN desired.Tags)
        observedTags == mapOf(current.Tags)
    IN  [ j \in 1..Len(keys) |->
            Pair("Tag " \o keys[j],
                 IF keys[j] \in DOMAIN observedTags THEN observedTags[keys[j]] ELSE "",
                 desired.Tags[keys[j]], FALSE) ]

Pairs ==
    CASE differ = "EC2" ->
           << Pair("Instance Type", current.InstanceType, desired.InstanceType, FALSE),
              Pair("AMI", current.ImageId, desired.AMI, FALSE),
              Pair("Key Name", current.KeyName, desired.KeyName, FALSE),
              Pair("Security Groups", current.SecurityGroups, desired.SecurityGroups, TRUE) >>
           \o TagPairs
      [] differ = "ALB" ->
           << Pair("Scheme", current.Scheme, desired.Scheme, FALSE),
              Pair("Subnets", current.AvailabilityZones, desired.Subnets, TRUE),
              Pair("Security Groups", current.SecurityGroups, desired.SecurityGroups, TRUE) >>
           \o TagPairs
      [] differ = "ASG" ->
           << Pair("Min Size", current.MinSize, desired.MinSize, FALSE),
              Pair("Max Size", current.MaxSize, desired.MaxSize, FALSE),
              Pair("Desired Capacity", current.DesiredCapacity, desired.DesiredCapacity, FALSE),
              Pair("Launch Template", current.LaunchTemplateName, desired.LaunchTemplate, FALSE),
              Pair("VPC Zone Identifier", current.VPCZoneIdentifier,
                   desired.VpcZoneIdentifier, TRUE),
              Pair("Target Group ARNs", current.TargetGroupARNs, desired.TargetGroupARNs, TRUE) >>
           \o TagPairs

\* the two values of a pair are unequal: a set-valued field by its members
Unequal(p) == IF p.many THEN SeqRange(p.from) # SeqRange(p.to) ELSE p.from # p.to

\* the differ has run on current and desired
Compared == pc \in {"diff_2", "diff_done"}

\* C16: for an observed and a desired resource that are equal field for field
\* (every scalar, the members of every set-valued field, the tags), each of
\* the three differs returns the empty Change Set.
C16_EqualPairsConverged ==
    (Compared /\ \A p \in 1..Len(Pairs) : ~Unequal(Pairs[p])
              /\ DOMAIN mapOf(current.Tags) = DOMAIN desired.Tags)
        => changes1 = <<>>

C16_Witness ==
    /\ Compared
    /\ differ = "ASG"
    /\ \A p \in 1..Len(Pairs) : ~Unequal(Pairs[p])
    /\ DOMAIN desired.Tags = TagKeys
    /\ DOMAIN mapOf(current.Tags) = TagKeys
    /\ changes1 = <<>>

\* C17: every entry of a Change Set is about a compared field (or tag key) and
\* carries its observed and its desired value, and the two are unequal.
C17_NoFalsePositives ==
    Compared =>
        \A j \in 1..Len(changes1) :
            \E p \in 1..Len(Pairs) :
                /\ Pairs[p].field = changes1[j].field
                /\ Pairs[p].from = changes1[j].from
                /\ Pairs[p].to = changes1[j].to
                /\ Unequal(Pairs[p])

C17_Witness ==
    /\ Compared
    /\ differ = "EC2"
    /\ Len(changes1) = 3
    /\ \E j \in 1..3 : changes1[j].field = "Tag team"
    /\ \E p \in 1..Len(Pairs) : ~Unequal(Pairs[p])

\* C18 as claimed: for every compared field pair whose values are unequal, the
\* Change Set has an entry, set-valued fields of equal size and different
\* members included.
C18_EveryUnequalPairReported ==
    Compared =>
        \A p \in 1..Len(Pairs) :
            Unequal(Pairs[p]) => \E j \in 1..Len(changes1) : changes1[j].field = Pairs[p].field

\* C19 as claimed: two runs of a differ on the same observed and desired
\* resource return the same entries in the same order.
C19_SameOrderEveryRun ==
    pc = "diff_done" => changes1 = changes2

\* the ids of all calls of TerminateInstances so far
Victims == UNION { SeqRange(trace[k].ids) : k \in CallIdx("TerminateInstances") }

\* C27: the list getExistingInstances returned holds exactly the instances of
\* the account that carry the desired Name tag and were running, pending,
\* stopping or stopped at the fetch, in the provider's order; a terminated
\* instance is neither in the list nor among the ids given to
\* TerminateInstances.
C27_FetchExcludesTerminated ==
    Fetched =>
        /\ \A k \in 1..Len(provider) :
             (~provider[k].new /\ provider[k].name = cfg.Name
                /\ provider[k].state \in {"running", "pending", "stopping", "stopped"})
                 => k \in SeqRange(existingInstances)
        /\ \A id \in SeqRange(existingInstances) \cup Victims :
             /\ provider[id].name = cfg.Name
             /\ ~provider[id].new
             /\ provider[id].state \in {"running", "pending", "stopping", "stopped",
                                        "shutting-down"}
             /\ provider[id].state = "shutting-down" => id \in Victims
        /\ \A a, b \in 1..Len(existingInstances) :
             a < b => existingInstances[a] < existingInstances[b]

C27_Witness ==
    /\ pc = "done"
    /\ OkCallIdx("TerminateInstances") # {}
    /\ Len(existingInstances) = 2
    /\ \E k \in 1..Len(provider) :
         /\ provider[k].name = cfg.Name
         /\ provider[k].state = "terminated"
         /\ k < existingInstances[1]

\* the positions in trace of the calls of HeadBucket
ProbeIdx == CallIdx("HeadBucket")

\* C29 as claimed: a create call of a kind is issued only when the fetch for
\* the declared name answered not found; for the bucket: CreateBucket is
\* issued only when the HeadBucket of the declared name (the first probe)
\* answered NotFound.
C29_CreateOnlyWhenNotFound ==
    /\ \A k \in GateKinds :
         StepIdx(k, "create") # {} => \E j \in StepIdx(k, "find") : hist[j].arg = <<"">>
    /\ CallIdx("CreateBucket") # {} =>
         \E j \in ProbeIdx :
             /\ \A l \in ProbeIdx : j <= l
             /\ trace[j].res = ProviderErr("NotFound")

\* the second program of go4gold.go has ended: main returned or log.Fatalf
\* ended the process
GoFatalEnded == pc \in {"gf_389", "exit"}

\* C26 as claimed: when the reconciliation of a kind fails, the kinds after it
\* are still reconciled: by the end of the program every declared kind has an
\* outcome.
C26_NeverFailFast ==
    GoFatalEnded => \A k \in Kinds : names[k] # "" => outcome[k] # "none"

\* C30 as claimed: after updateEC2Instance returned nil, the Change Set was
\* applied: a following pass with the same desired resource computes the
\* empty Change Set.
C30_UpdatedMeansApplied ==
    pc = "up_done" => changes2 = <<>>

\* the positions in hist of the fetches of kind k the provider answered with
\* "there is none": a NotFound error or an empty list
AbsentIdx(k) ==
    { j \in StepIdx(k, "find") :
        \/ hist[j].res \in {ProviderErr("LoadBalancerNotFound"), ProviderErr("NotFound")}
        \/ hist[j].res = NoErr /\ hist[j].arg = <<>> }

\* C28: when the provider answers the fetch with NotFound or with an empty
\* list, the handler takes the create path: it does not compare, prompt or
\* update, it has no error unless the create itself fails, and a create that
\* succeeds is reported as created.
C28_NotFoundLeadsToCreate ==
    AbsentIdx(kind) # {} =>
        /\ StepIdx(kind, "compare") = {}
        /\ StepIdx(kind, "prompt") = {}
        /\ StepIdx(kind, "update") = {}
        /\ pc \in {"go_150", "gf_450"} \/ StepIdx(kind, "create") # {}
        /\ (err # NoErr \/ fatal # NoErr \/ outcome[kind] = "Failed to handle") =>
               \E j \in StepIdx(kind, "create") : hist[j].res # NoErr
        /\ (\E j \in StepIdx(kind, "create") : hist[j].res = NoErr) =>
               outcome[kind] = "Created"

C28_Witness ==
    /\ kind = "ALB"
    /\ \E j \in StepIdx(kind, "find") : hist[j].res = ProviderErr("LoadBalancerNotFound")
    /\ \E j \in StepIdx(kind, "create") : hist[j].res = NoErr
    /\ live[kind] = "created"
    /\ err = NoErr

\* the provider calls of the concurrent main that change the account
MutatingOps == {"RunInstances", "CreateRole", "PutRolePolicy"}

\* C21: every mutating provider call is preceded, in the same pass and for the
\* same kind, by a fetch of the resource that completed successfully.
C21_MutationAfterFetch ==
    \A j \in 1..Len(hist) :
        hist[j].op \in MutatingOps =>
            \E f \in 1..(j - 1) :
                /\ hist[f].kind = hist[j].kind
                /\ hist[f].op \in {"find", "describe"}
                /\ hist[f].res = NoErr

\* the kinds the configuration names
DeclaredKinds == { k \in DOMAIN tasks : names[k] # "" }

\* the goroutine of kind k has started, has not ended and does not wait for
\* the operator
Live(k) == tasks[k] \in {"run", "policy", "update", "delay", "send", "deferred"}

\* no goroutine is cancelled or blocked: while one has not ended the process
\* runs and the goroutine can take a step; and the error a goroutine of the
\* first main ends with is nil exactly when all the calls of its own kind
\* returned nil (what a handler of the second main calls is not known)
Isolated ==
    \A k \in DOMAIN tasks :
        /\ Live(k) => Running /\ ENABLED TaskStep(k)
        /\ (tasks[k] \in {"deferred", "done"} /\ DOMAIN tasks = KindsA) =>
               (taskErr[k] = NoErr <=>
                    \A j \in 1..Len(hist) : hist[j].kind = k => hist[j].res = NoErr)

C23_OneOutcomePerTask ==
    pc \in {"co_close", "co_range", "co_exit"} =>
        Len(errChan) + Len(logged) = Cardinality(DeclaredKinds)

\* C24: main reads nothing from errChan and does not close it before every
\* goroutine it started has ended, and no goroutine sends on the closed
\* errChan.
C24_AggregateAfterAllComplete ==
    /\ (closed \/ logged # <<>>) =>
           \A k \in DOMAIN tasks : tasks[k] = IF names[k] # "" THEN "done" ELSE "idle"
    /\ exitCode # 2

C24_Witness ==
    /\ closed
    /\ Len(logged) = 2
    /\ Cardinality({ k \in DOMAIN tasks : tasks[k] = "done" }) >= 2

\* C25: when every goroutine has ended and the process exits, its exit status
\* is zero exactly when no kind failed.
C25_ExitReportsFailure ==
    pc = "co_exit" =>
        (exitCode = 0 <=> \A k \in DOMAIN tasks : taskErr[k] = NoErr)

\* the observed instances a TerminateInstances call naming ids leaves out, as
\* the account holds them
Spared(ids) ==
    { k \in 1..Len(provider) :
        /\ provider[k].id \in SeqRange(existingInstances)
        /\ provider[k].id \notin SeqRange(ids) }

\* every scale-down of mainHandler names at least one instance and fewer than
\* are observed, and is not clipped
ScaleDownStrictlyFewer ==
    \A k \in CallIdx("TerminateInstances") :
        /\ Len(trace[k].ids) >= 1
        /\ Len(trace[k].ids) < Len(existingInstances)
        /\ Len(trace[k].ids) = instancesToTerminate

\* C36 as stated: every scale-down of mainHandler terminates strictly fewer
\* instances than are observed, is not clipped, names at least one instance,
\* and leaves at least one observed instance running.
C36_ScaleDownLeavesOneRunning ==
    /\ ScaleDownStrictlyFewer
    /\ \A k \in CallIdx("TerminateInstances") :
           \E j \in Spared(trace[k].ids) : provider[j].state = "running"

\* C36 amended: every scale-down of mainHandler terminates strictly fewer
\* instances than are observed, is not clipped, names at least one instance,
\* and leaves at least one observed instance that is not terminated (it may
\* be pending, stopping or stopped).
C36_ScaleDownLeavesOneLive ==
    /\ ScaleDownStrictlyFewer
    /\ \A k \in CallIdx("TerminateInstances") :
           \E j \in Spared(trace[k].ids) :
               provider[j].state \in {"running", "pending", "stopping", "stopped"}

C36_Witness ==
    /\ pc = "done"
    /\ cfg.DesiredCount = 1
    /\ Len(existingInstances) = 3
    /\ \E k \in OkCallIdx("TerminateInstances") :
           /\ Len(trace[k].ids) = 2
           /\ Cardinality(Spared(trace[k].ids)) = 1

\* every provider call and every evaluation of a wrapped operation of the
\* pass succeeded
AllSucceeded == \A k \in 1..Len(trace) : trace[k].res = NoErr

\* C35: after a pass of mainHandler in which every provider call succeeded,
\* the instances a fetch counts (Name tag equal to the desired name, state not
\* terminated) are desired_count many, so the next pass finds the counts equal
\* and returns before any create or terminate.
C35_FleetConverges ==
    (pc = "done" /\ Fetched /\ AllSucceeded) =>
        observedCount(getExistingInstances(provider, cfg.Name)) = cfg.DesiredCount

C35_Witness ==
    /\ pc = "done"
    /\ AllSucceeded
    /\ Len(existingInstances) = 0
    /\ cfg.DesiredCount = 2
    /\ Cardinality(OkCallIdx("RunInstances")) = 2
    /\ Len(getExistingInstances(provider, cfg.Name)) = 2

\* the provider calls of updateEC2Instance in the order of the code, and the
\* message of the error it returns when the call fails
UpdateOrder ==
    << [op |-> "StopInstances", msg |-> "failed to stop instance"],
       [op |-> "InstanceStoppedWaiter", msg |-> "failed to wait for instance to stop"],
       [op |-> "ModifyInstanceAttribute", msg |-> "failed to modify instance type"],
       [op |-> "StartInstances", msg |-> "failed to start instance"] >>

\* C37: updateEC2Instance issues stop, wait-until-stopped, modify, start in
\* this order, each only after the one before succeeded; the first failing
\* call is the last one, its failure is what is returned, and a failed modify
\* leaves the instance stopped with no start issued.
C37_UpdateStepsInOrder ==
    /\ Len(trace) <= Len(UpdateOrder)
    /\ \A k \in 1..Len(trace) :
           /\ trace[k].op = UpdateOrder[k].op
           /\ k < Len(trace) => trace[k].res = NoErr
           /\ trace[k].res # NoErr =>
                  /\ pc = "up_return"
                  /\ err = Errorf(UpdateOrder[k].msg, <<trace[k].res>>)
    /\ pc \in {"up_return", "up_done"} =>
           (err = NoErr <=> (Len(trace) = 4 /\ trace[4].res = NoErr))
    /\ (Len(trace) = 3 /\ trace[3].res # NoErr) => current.State = "stopped"

C37_Witness ==
    /\ pc = "up_return"
    /\ Len(trace) = 3
    /\ trace[3].op = "ModifyInstanceAttribute"
    /\ trace[3].res # NoErr
    /\ current.State = "stopped"
    /\ err # NoErr

\* the existence checks of the pass in order: the names asked for, and what
\* HeadBucket answered
Probed == SelectSeq(hist, LAMBDA e : e.op = "find")

Answered == SelectSeq(trace, LAMBDA e : e.ev = "call" /\ e.op = "HeadBucket")

\* the j-th name of the order base, base-1, ..., base-9
nameAt(base, j) == IF j = 1 THEN base ELSE base \o "-" \o ToString(j - 1)

\* getUniqueBucketName has returned
ProbeReturned == pc \in {"s3_retry", "s3_return", "go_return"}

\* C38: getUniqueBucketName(base) checks at most 10 names, in the order base,
\* base-1, ..., base-9, going on only past names that exist; it returns the
\* first checked name that does not exist, whose check answered not-found;
\* it returns an error, and handleS3Bucket issues no create call, when all 10
\* exist or a check fails.
C38_UniqueNameProbes ==
    LET base == names[kind]
        np == Len(Probed)
    IN  /\ np <= 10 /\ Len(Answered) = np
        /\ \A j \in 1..np :
               /\ Probed[j].arg = <<nameAt(base, j)>>
               /\ j < np => Answered[j].res = NoErr
        /\ (np > 0 /\ Answered[np].res = ProviderErr("NotFound")) =>
               /\ pc \in {"s3_retry", "s3_return", "go_return"}
               /\ s3.bucketName = nameAt(base, np)
        /\ (np > 0 /\ Answered[np].res \in { ProviderErr(e) : e \in ProviderErrors }) =>
               /\ pc = "go_return" /\ err # NoErr
               /\ CallIdx("CreateBucket") = {}
        /\ (ProbeReturned /\ np = 10 /\ Answered[np].res = NoErr) =>
               /\ pc = "go_return" /\ err # NoErr
               /\ CallIdx("CreateBucket") = {}
        /\ CallIdx("CreateBucket") # {} =>
               /\ np > 0 /\ Answered[np].res = ProviderErr("NotFound")
               /\ s3.bucketName = nameAt(base, np)
        /\ (pc = "go_184" /\ np > 0) => Answered[np].res = NoErr

C38_Witness ==
    /\ pc = "go_return"
    /\ Len(Probed) = 10
    /\ \A j \in 1..10 : Answered[j].res = NoErr
    /\ Probed[10].arg = <<"assets-9">>
    /\ err.causes[1].msg = "could not find a unique bucket name after 10 attempts"
    /\ CallIdx("CreateBucket") = {}

\* the fetches of the pass that succeeded
FoundIdx == { j \in StepIdx("EC2", "find") : hist[j].res = NoErr }

\* C39: findInstanceByName returns the first instance of the provider's order
\* that carries the Name tag, whatever its state; the handler creates only
\* when the account holds no instance of that name at all, and goes to the
\* diff when the only instance of that name is terminated.
C39_FindIgnoresState ==
    \A j \in FoundIdx :
        LET tagged == hist[j].arg IN
        IF tagged = <<>>
        THEN /\ StepIdx("EC2", "compare") = {}
             /\ StepIdx("EC2", "update") = {}
             /\ pc = "p1_98" \/ StepIdx("EC2", "create") # {}
        ELSE /\ StepIdx("EC2", "create") = {}
             /\ instanceID = "i-" \o ToString(tagged[1].id)
             /\ pc = "p1_70" \/ StepIdx("EC2", "compare") # {}

C39_Witness ==
    /\ pc = "p1_end"
    /\ \E j \in FoundIdx :
           /\ Len(hist[j].arg) = 1
           /\ hist[j].arg[1].state = "terminated"
    /\ \E j \in StepIdx("EC2", "update") : hist[j].res = NoErr
    /\ instanceID # ""

\* the paths of a pass of a handler
PathNames ==
    {"fetch-failed", "created", "create-failed", "converged", "rejected", "updated",
     "update-failed"}

\* the pass of kind k took path p, by the steps the handler made
TookPath(k, p) ==
    CASE p = "fetch-failed" -> \E j \in StepIdx(k, "find") : hist[j].res # NoErr
      [] p = "created" -> \E j \in StepIdx(k, "create") : hist[j].res = NoErr
      [] p = "create-failed" -> \E j \in StepIdx(k, "create") : hist[j].res # NoErr
      [] p = "converged" -> \E j \in StepIdx(k, "compare") : hist[j].arg = <<>>
      [] p = "rejected" -> StepIdx(k, "prompt") # {} /\ StepIdx(k, "update") = {}
      [] p = "updated" -> \E j \in StepIdx(k, "update") : hist[j].res = NoErr
      [] p = "update-failed" -> \E j \in StepIdx(k, "update") : hist[j].res # NoErr

\* the result main has of a pass that took path p
ResultOf(p) ==
    CASE p = "created" -> "Created"
      [] p = "converged" -> "No changes required."
      [] p = "rejected" -> "Changes rejected."
      [] p = "updated" -> "Changes applied successfully."
      [] OTHER -> "Failed to handle"

SentBy(k) ==
    { j \in 1..Len(errChan) : errChan[j].msg = label(k) }
    \cup { Len(errChan) + j : j \in { m \in 1..Len(logged) : logged[m].msg = label(k) } }

Waiting(k) == tasks[k] \in {"gate", "delay"}

SiblingsGoOn ==
    \A w, k \in DOMAIN tasks :
        (Running /\ Waiting(w) /\ k # w /\ Live(k)) => ENABLED TaskStep(k)

C31_BlockingIsLocal ==
    /\ []SiblingsGoOn
    /\ <>[](\A k \in DeclaredKinds : tasks[k] \in {"gate", "done"})

\* one task waits at its prompt, the S3 task waits in its delay, and a sibling
\* that has nothing to ask has come to its terminal state
C31_Witness ==
    /\ Running
    /\ \E w, k \in DOMAIN tasks :
         /\ tasks[w] = "gate"
         /\ tasks["S3"] = "delay"
         /\ ~drifted(k) /\ names[k] # "" /\ tasks[k] = "done"

\* C34  Concurrent approval prompts.  The line that a handler has read at its
\* prompt is the line that the operator typed as the answer to the prompt of
\* that handler's kind, never the answer to the prompt of another kind.
C34_AnswerReachesItsPrompt ==
    \A k \in DOMAIN approval : approval[k].to \in {"", k}

====
